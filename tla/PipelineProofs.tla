-------------------------- MODULE PipelineProofs --------------------------
(***************************************************************************)
(* What the pipeline guarantees, for every value of the bounds, of the     *)
(* queue size and of the sink's capacity, with any faults: the queues keep *)
(* to their bound and what a task holds is what its state says it holds;   *)
(* nothing of an abandoned utterance is heard any more; a supervisor that  *)
(* is gone leaves no task behind; and the speech that follows a barge-in   *)
(* belongs to an utterance nobody has abandoned.                           *)
(*                                                                         *)
(* Silence is not inductive: it needs the invariant that ties every handle *)
(* and every blocked call to the pair under which the pipeline still       *)
(* remembers its generation, so that stopping the remembered generations   *)
(* silences everything.  Leak freedom needs to know which task may still   *)
(* be running in each state of the supervisor.                             *)
(*                                                                         *)
(* NewSpeechIsOwned is not inductive by itself: a roll moves the utterance *)
(* on, and must not land on one that was abandoned earlier.  What makes it *)
(* so is that utterances are numbered in time: nothing that is queued, in  *)
(* hand or abandoned is stamped with an utterance later than the current.  *)
(*                                                                         *)
(* What is translated and heard keeps the order of the source, and nothing *)
(* comes twice; so the pipeline implements Interpretation.  Hypotheses     *)
(* carry turn ids here (HasTurnIds): without them the code does start a    *)
(* turn again (README, section 6).  A segment travels from puts through    *)
(* segQ to cur and translated, its chunks from ttsQ through a blocked call *)
(* and a handle to heard: what is in the one place comes before what is in *)
(* the other (SegmentsInv, ChunksInv), and all of it lies behind what the  *)
(* STT stage may still cut (Behind), rolls and blocked puts included.      *)
(*                                                                         *)
(* That nothing is skipped without a barge-in needs no turn ids: all that  *)
(* is cut and not yet translated is one line without gaps (GapInv).        *)
(***************************************************************************)
EXTENDS Pipeline, PlaybackSink, FiniteSetTheorems, SequenceTheorems,
        WellFoundedInduction, TLAPS

(* The work task exists only while the supervisor races it. *)
WorkInHand ==
  /\ supPc # "work" => work = "none"
  /\ supPc = "work" => cur # NoSegment

TypeInv == TypeOK /\ WorkInHand

---------------------------------------------------------------------------
(* Data.                                                                   *)

(* _drain() leaves sentinels only, and no more than there were items. *)
LEMMA DrainProperties ==
  ASSUME NEW S, NEW q \in Seq(S), NEW s \in S
  PROVE  /\ Drain(q, s) \in Seq(S)
         /\ Len(Drain(q, s)) <= Len(q)
         /\ \A i \in DOMAIN Drain(q, s) : Drain(q, s)[i] = s
         /\ (\A i \in DOMAIN q : q[i] # s) => Drain(q, s) = <<>>
<1> DEFINE Kept == {j \in DOMAIN q : q[j] = s}
<1> DEFINE n == Cardinality(Kept)
<1>1. DOMAIN q = 1..Len(q) /\ Len(q) \in Nat
  BY LenProperties
<1>2. IsFiniteSet(1..Len(q)) /\ Cardinality(1..Len(q)) = Len(q)
  BY <1>1, FS_Interval
<1>3. Kept \in SUBSET (1..Len(q))
  BY <1>1
<1>4. IsFiniteSet(Kept) /\ n <= Len(q)
  BY <1>2, <1>3, FS_Subset
<1>5. n \in Nat
  BY <1>4, FS_CardinalityType
<1>6. Drain(q, s) = [i \in 1..n |-> s]
  BY DEF Drain
<1> HIDE DEF n
<1>7. [i \in 1..n |-> s] \in Seq(S) /\ Len([i \in 1..n |-> s]) = n
  BY <1>5
<1>8. (\A i \in DOMAIN q : q[i] # s) => Drain(q, s) = <<>>
  <2> SUFFICES ASSUME \A i \in DOMAIN q : q[i] # s PROVE Drain(q, s) = <<>>
    OBVIOUS
  <2>1. Kept = {}
    OBVIOUS
  <2>2. n = 0
    BY <2>1, FS_EmptySet DEF n
  <2> QED
    BY <1>6, <1>7, <2>2
<1> QED
  BY <1>4, <1>6, <1>7, <1>8

(* Segments that tile a stretch of tokens are stamped with one utterance. *)
LEMMA TilingsProperties ==
  ASSUME NEW u \in Utterances, NEW t \in Nat, NEW lo \in Nat, NEW hi \in Nat,
         NEW segs \in Tilings(u, t, lo, hi)
  PROVE  /\ segs \in Seq(Segment)
         /\ \A i \in DOMAIN segs : segs[i].utt = u
         /\ EndOf(segs, lo) \in Nat
<1> DEFINE Piece == [utt : {u}, turn : {t}, lo : lo..hi, hi : lo..hi]
<1>1. PICK n \in 0..(hi - lo) : segs \in [1..n -> Piece]
  BY DEF Tilings
<1> HIDE DEF Piece
<1>2. Piece \subseteq Segment
  <2>1. lo..hi \subseteq Nat
    OBVIOUS
  <2>2. ASSUME NEW p \in Piece PROVE p \in Segment
    <3>1. /\ p.utt \in Utterances /\ p.turn \in Nat /\ p.lo \in Nat /\ p.hi \in Nat
          /\ p = [utt |-> p.utt, turn |-> p.turn, lo |-> p.lo, hi |-> p.hi]
      BY <2>1 DEF Piece
    <3> QED
      BY <3>1 DEF Segment
  <2> QED
    BY <2>2
<1>3. n \in Nat
  OBVIOUS
<1>4. segs \in Seq(Piece)
  BY <1>1, <1>3
<1>5. segs \in Seq(Segment)
  BY <1>2, <1>4, SeqMonotonic
<1>6. \A i \in DOMAIN segs : segs[i].utt = u
  BY <1>1 DEF Piece
<1>7. EndOf(segs, lo) \in Nat
  <2>1. CASE segs = <<>>
    BY <2>1 DEF EndOf
  <2>2. CASE segs # <<>>
    <3>1. Len(segs) \in 1..Len(segs)
      BY <1>5, <2>2, EmptySeq
    <3>2. segs[Len(segs)] \in Segment
      BY <1>5, <3>1, ElementOfSeq
    <3> QED
      BY <2>2, <3>2 DEF EndOf, Segment
  <2> QED
    BY <2>1, <2>2
<1> QED
  BY <1>5, <1>6, <1>7

---------------------------------------------------------------------------
(* Types in the STT stage.                                                 *)

SegItem == Segment \cup {NoSegment}
TtsItem == Chunk \cup {NoChunk}

(* put() never exceeds the queue, and keeps what did not fit. *)
LEMMA PutSegmentsTypes ==
  ASSUME segQ \in Seq(SegItem), Len(segQ) <= QueueMax,
         NEW segs \in Seq(Segment), NEW final \in BOOLEAN, NEW u \in Utterances,
         NEW m \in Nat, NEW c \in Nat,
         PutSegments(segs, final, u, m, c)
  PROVE  /\ segQ' \in Seq(SegItem) /\ Len(segQ') <= QueueMax
         /\ puts' \in Seq(Segment) /\ sttPc' \in SttPcs /\ ending' \in BOOLEAN
         /\ utt' \in Utterances /\ committed' \in Nat /\ closed' \in Nat
<1>1. segs \in Seq(SegItem)
  BY SeqMonotonic DEF SegItem
<1>2. Len(segs) \in Nat /\ Len(segQ) \in Nat /\ QueueMax \in Nat
  BY LenProperties, QueueMaxAssumption
<1>3. Room \in Nat /\ Len(segQ) + Room = QueueMax
  BY <1>2 DEF Room
<1>4. CASE Len(segs) <= Room
  <2>1. /\ segQ' = segQ \o segs
        /\ puts' = <<>> /\ sttPc' = "listen" /\ ending' = FALSE
        /\ utt' = IF final THEN u + 1 ELSE u
        /\ committed' = IF final THEN 0 ELSE m
        /\ closed' = IF final THEN 0 ELSE c
    BY <1>4 DEF PutSegments
  <2>2. segQ' \in Seq(SegItem) /\ Len(segQ') = Len(segQ) + Len(segs)
    BY <1>1, <2>1, ConcatProperties
  <2>3. puts' \in Seq(Segment)
    BY <2>1
  <2>4. u + 1 \in Utterances /\ 0 \in Nat
    BY DEF Utterances
  <2>5. utt' \in Utterances /\ committed' \in Nat /\ closed' \in Nat
    BY <2>1, <2>4
  <2>6. sttPc' \in SttPcs /\ ending' \in BOOLEAN
    BY <2>1 DEF SttPcs
  <2>7. Len(segQ') <= QueueMax
    BY <1>2, <1>3, <1>4, <2>2
  <2> QED
    BY <2>2, <2>3, <2>5, <2>6, <2>7
<1>5. CASE ~(Len(segs) <= Room)
  <2>1. /\ segQ' = segQ \o SubSeq(segs, 1, Room)
        /\ puts' = SubSeq(segs, Room + 1, Len(segs))
        /\ sttPc' = "put" /\ ending' = final
        /\ utt' = u /\ committed' = m /\ closed' = c
    BY <1>5 DEF PutSegments
  <2>2. \A i \in 1..Len(segs) : segs[i] \in Segment /\ segs[i] \in SegItem
    <3>1. \A i \in 1..Len(segs) : segs[i] \in Segment
      BY ElementOfSeq
    <3> QED
      BY <3>1 DEF SegItem
  <2>3. /\ SubSeq(segs, 1, Room) \in Seq(SegItem)
        /\ Len(SubSeq(segs, 1, Room)) <= Room
    <3>1. \A i \in 1..Room : segs[i] \in SegItem
      BY <1>2, <1>3, <1>5, <2>2
    <3> QED
      BY <1>2, <1>3, <3>1, SubSeqProperties
  <2>4. segQ' \in Seq(SegItem) /\ Len(segQ') <= QueueMax
    <3>1. /\ segQ' \in Seq(SegItem)
          /\ Len(segQ') = Len(segQ) + Len(SubSeq(segs, 1, Room))
      BY <2>1, <2>3, ConcatProperties
    <3> QED
      BY <1>2, <1>3, <2>3, <3>1, LenProperties
  <2>5. puts' \in Seq(Segment)
    <3>1. \A i \in (Room + 1)..Len(segs) : segs[i] \in Segment
      BY <1>2, <1>3, <2>2
    <3> QED
      BY <1>2, <1>3, <2>1, <3>1, SubSeqProperties
  <2> QED
    BY <2>1, <2>4, <2>5 DEF SttPcs
<1> QED
  BY <1>4, <1>5

(* The sentinel is put only where there is room for it. *)
LEMMA PutSentinelTypes ==
  ASSUME segQ \in Seq(SegItem), Len(segQ) <= QueueMax, PutSentinel
  PROVE  segQ' \in Seq(SegItem) /\ Len(segQ') <= QueueMax /\ sttPc' \in SttPcs
<1>1. Len(segQ) \in Nat /\ QueueMax \in Nat
  BY LenProperties, QueueMaxAssumption
<1>2. CASE Room > 0
  <2>1. segQ' = Append(segQ, NoSegment) /\ sttPc' = "done"
    BY <1>2 DEF PutSentinel
  <2>2. NoSegment \in SegItem
    BY DEF SegItem
  <2>3. segQ' \in Seq(SegItem) /\ Len(segQ') = Len(segQ) + 1
    BY <2>1, <2>2, AppendProperties
  <2> QED
    BY <1>1, <1>2, <2>1, <2>3 DEF Room, SttPcs
<1>3. CASE ~(Room > 0)
  BY <1>3 DEF PutSentinel, SttPcs
<1> QED
  BY <1>2, <1>3

(* A step of the STT stage leaves every other task's state alone. *)
LEMMA SttFrame ==
  ASSUME TypeInv, UNCHANGED beyondStt, SttTypeOK',
         segQ' \in Seq(SegItem), Len(segQ') <= QueueMax, rollDone' <= rollRequests
  PROVE  TypeInv'
<1>1. QueueTypeOK'
  BY DEF beyondStt, SegItem, TypeInv, TypeOK, QueueTypeOK, Chunk, Segment, NoChunk, NoSegment
<1>2. SupTypeOK'
  BY DEF beyondStt, supVars, rollVars, workVars, bargeVars, ledgerVars, TypeInv, TypeOK,
     SupTypeOK, Segment, NoSegment, Utterances
<1>3. SinkTypeOK'
  BY DEF beyondStt, ledgerVars, TypeInv, TypeOK, SinkTypeOK, Handle, Call, Chunk, Segment
<1>4. WorkInHand'
  BY DEF beyondStt, supVars, workVars, TypeInv, WorkInHand
<1>5. /\ rollDone' <= rollRequests'
      /\ playPc' \in PlayPcs /\ bargePc' \in {"watch", "done"} /\ onsets' \in Nat
      /\ heard' \in Chunk \cup {NoChunk}
  BY DEF beyondStt, supVars, rollVars, bargeVars, TypeInv, TypeOK
<1> QED
  BY <1>1, <1>2, <1>3, <1>4, <1>5 DEF TypeInv, TypeOK

(* What a hypothesis finds when it arrives has the right type. *)
LEMMA RolledTypes ==
  ASSUME TypeInv
  PROVE  /\ RolledUtt \in Utterances /\ RolledCommits \in Nat /\ RolledClosed \in Nat
         /\ RolledStale \subseteq Nat /\ turn + 1 \in Nat /\ turn \in Nat
         /\ rollRequests \in Nat /\ rollRequests <= rollRequests
<1>1. /\ utt \in Utterances /\ rollRequests \in Nat /\ rollDone \in Nat
      /\ rollDone <= rollRequests
      /\ committed \in Nat /\ closed \in Nat /\ turn \in Nat /\ curTurn \in Nat
      /\ staleTurns \subseteq Nat
  BY DEF TypeInv, TypeOK, SttTypeOK, SupTypeOK
<1>2. RolledUtt \in Utterances
  BY <1>1 DEF RolledUtt, Utterances
<1> QED
  BY <1>1, <1>2 DEF RolledCommits, RolledClosed, RolledStale

LEMMA DropHypothesisTypes ==
  ASSUME TypeInv, NEW final \in BOOLEAN, DropHypothesis(final)
  PROVE  TypeInv'
<1>1. SttTypeOK'
  BY RolledTypes
  DEF DropHypothesis, HypothesisArrives, TypeInv, TypeOK, SttTypeOK, Utterances, Segment, SttPcs
<1>2. segQ' \in Seq(SegItem) /\ Len(segQ') <= QueueMax
  BY DEF DropHypothesis, TypeInv, TypeOK, QueueTypeOK, SegItem
<1>3. rollDone' <= rollRequests /\ UNCHANGED beyondStt
  BY RolledTypes DEF DropHypothesis, HypothesisArrives
<1> QED
  BY <1>1, <1>2, <1>3, SttFrame

LEMMA KeepHypothesisTypes ==
  ASSUME TypeInv, NEW final \in BOOLEAN, KeepHypothesis(final)
  PROVE  TypeInv'
<1>1. PICK m \in 0..MaxTokens :
        \E segs \in Tilings(RolledUtt, turn, RolledClosed, m) :
          PutSegments(segs, final, RolledUtt, m, EndOf(segs, RolledClosed))
  BY DEF KeepHypothesis
<1>2. PICK segs \in Tilings(RolledUtt, turn, RolledClosed, m) :
        PutSegments(segs, final, RolledUtt, m, EndOf(segs, RolledClosed))
  BY <1>1
<1>3. m \in Nat
  BY BoundsAssumption
<1>4. segs \in Seq(Segment) /\ EndOf(segs, RolledClosed) \in Nat
  BY <1>3, RolledTypes, TilingsProperties
<1>5. segQ \in Seq(SegItem) /\ Len(segQ) <= QueueMax
  BY DEF TypeInv, TypeOK, QueueTypeOK, SegItem
<1>6. /\ segQ' \in Seq(SegItem) /\ Len(segQ') <= QueueMax
      /\ puts' \in Seq(Segment) /\ sttPc' \in SttPcs /\ ending' \in BOOLEAN
      /\ utt' \in Utterances /\ committed' \in Nat /\ closed' \in Nat
  BY <1>2, <1>3, <1>4, <1>5, RolledTypes, PutSegmentsTypes
<1>7. /\ turn' \in Nat /\ curTurn' \in Nat /\ staleTurns' \subseteq Nat
      /\ rollDone' \in Nat /\ rollDone' <= rollRequests
      /\ UNCHANGED beyondStt
  BY RolledTypes DEF KeepHypothesis, HypothesisArrives, TypeInv, TypeOK, SttTypeOK
<1>8. SttTypeOK'
  BY <1>6, <1>7 DEF SttTypeOK, Segment, SttPcs, Utterances
<1> QED
  BY <1>6, <1>7, <1>8, SttFrame

LEMMA ResumePutTypes ==
  ASSUME TypeInv, ResumePut
  PROVE  TypeInv'
<1>1. /\ segQ \in Seq(SegItem) /\ Len(segQ) <= QueueMax
      /\ puts \in Seq(Segment) /\ ending \in BOOLEAN /\ utt \in Utterances
      /\ committed \in Nat /\ closed \in Nat
  BY DEF TypeInv, TypeOK, QueueTypeOK, SttTypeOK, SegItem
<1>2. PutSegments(puts, ending, utt, committed, closed)
  BY DEF ResumePut
<1>3. /\ segQ' \in Seq(SegItem) /\ Len(segQ') <= QueueMax
      /\ puts' \in Seq(Segment) /\ sttPc' \in SttPcs /\ ending' \in BOOLEAN
      /\ utt' \in Utterances /\ committed' \in Nat /\ closed' \in Nat
  BY <1>1, <1>2, PutSegmentsTypes
<1>4. UNCHANGED <<turn, curTurn, staleTurns, rollDone>> /\ UNCHANGED beyondStt
  BY DEF ResumePut
<1>5. SttTypeOK' /\ rollDone' <= rollRequests
  BY <1>3, <1>4 DEF TypeInv, TypeOK, SttTypeOK, Segment, SttPcs, Utterances
<1> QED
  BY <1>3, <1>4, <1>5, SttFrame

(* The end of the stream, whether or not the sentinel's put blocks. *)
LEMMA PutSentinelStepTypes ==
  ASSUME TypeInv, StreamEnds \/ ResumePutSentinel
  PROVE  TypeInv'
<1>1. /\ PutSentinel /\ UNCHANGED beyondStt
      /\ UNCHANGED <<turn, curTurn, staleTurns, utt, committed, closed, puts, ending,
                     rollDone>>
  BY DEF StreamEnds, ResumePutSentinel
<1>2. segQ \in Seq(SegItem) /\ Len(segQ) <= QueueMax
  BY DEF TypeInv, TypeOK, QueueTypeOK, SegItem
<1>3. segQ' \in Seq(SegItem) /\ Len(segQ') <= QueueMax /\ sttPc' \in SttPcs
  BY <1>1, <1>2, PutSentinelTypes
<1>4. SttTypeOK' /\ rollDone' <= rollRequests
  BY <1>1, <1>3 DEF TypeInv, TypeOK, SttTypeOK, Segment, SttPcs, Utterances
<1> QED
  BY <1>1, <1>3, <1>4, SttFrame

LEMMA SttTypes == TypeInv /\ SttStep => TypeInv'
BY DropHypothesisTypes, KeepHypothesisTypes, ResumePutTypes, PutSentinelStepTypes DEF SttStep

---------------------------------------------------------------------------
(* The supervisor.                                                         *)

(* A step of the supervisor leaves the STT and barge-in stages alone. *)
LEMMA SupFrame ==
  ASSUME TypeInv, UNCHANGED beyondSup, SupTypeOK', QueueTypeOK', SinkTypeOK',
         rollRequests <= rollRequests', WorkInHand'
  PROVE  TypeInv'
<1>1. SttTypeOK'
  BY DEF beyondSup, sttVars, TypeInv, TypeOK, SttTypeOK, Segment, SttPcs, Utterances
<1>2. rollDone' <= rollRequests'
  <2>1. /\ rollDone' = rollDone /\ rollDone <= rollRequests
        /\ rollDone \in Nat /\ rollRequests \in Nat
    BY DEF beyondSup, sttVars, TypeInv, TypeOK, SttTypeOK, SupTypeOK
  <2>2. rollRequests' \in Nat
    BY DEF SupTypeOK
  <2> QED
    BY <2>1, <2>2
<1>3. /\ playPc' \in PlayPcs /\ bargePc' \in {"watch", "done"} /\ onsets' \in Nat
      /\ heard' \in Chunk \cup {NoChunk}
  BY DEF beyondSup, bargeVars, TypeInv, TypeOK
<1> QED
  BY <1>1, <1>2, <1>3 DEF TypeInv, TypeOK

(***************************************************************************)
(* A supervisor step that neither handles a barge-in nor touches a queue   *)
(* other than to take from it.                                             *)
(***************************************************************************)
LEMMA QuietSupFrame ==
  ASSUME TypeInv, UNCHANGED <<noBargeIn, beyondSup>>, WorkInHand', QueueTypeOK',
         supPc' \in SupPcs, cur' \in Segment \cup {NoSegment}, lastUtt' \in Nat,
         work' \in {"none", "running", "putting", "done", "failed"}, nextChunk' \in Nat,
         translated' \in Segment \cup {NoSegment}, interrupt' \in BOOLEAN
  PROVE  TypeInv'
<1>1. /\ UNCHANGED <<rollRequests, abandoned, hitTurns, gens, stops, aborting>>
      /\ UNCHANGED ledgerVars /\ UNCHANGED beyondSup
  BY DEF noBargeIn, rollVars, beyondSup
<1>2. SupTypeOK'
  BY <1>1 DEF TypeInv, TypeOK, SupTypeOK, Segment, NoSegment, Utterances, SupPcs
<1>3. SinkTypeOK'
  BY <1>1 DEF ledgerVars, TypeInv, TypeOK, SinkTypeOK, Handle, Call, Chunk, Segment
<1>4. rollRequests <= rollRequests'
  BY <1>1 DEF TypeInv, TypeOK, SupTypeOK
<1> QED
  BY <1>1, <1>2, <1>3, <1>4, SupFrame

LEMMA TakeSegmentTypes ==
  ASSUME TypeInv, TakeSegment
  PROVE  TypeInv'
<1>1. segQ \in Seq(SegItem) /\ segQ # <<>> /\ Len(segQ) <= QueueMax /\ QueueMax \in Nat
  BY QueueMaxAssumption DEF TakeSegment, TypeInv, TypeOK, QueueTypeOK, SegItem
<1>2. Len(segQ) \in Nat
  BY <1>1, LenProperties
<1>3. /\ cur' \in SegItem
      /\ segQ' \in Seq(SegItem) /\ Len(segQ') = Len(segQ) - 1
  BY <1>1, HeadTailProperties DEF TakeSegment
<1>4. QueueTypeOK'
  BY <1>1, <1>2, <1>3
  DEF TakeSegment, TypeInv, TypeOK, QueueTypeOK, SegItem, Chunk, Segment, NoChunk, NoSegment
<1>5. supPc' \in SupPcs /\ WorkInHand'
  BY DEF TakeSegment, workVars, TypeInv, WorkInHand, SupPcs
<1> QED
  BY <1>3, <1>4, <1>5, QuietSupFrame
  DEF TakeSegment, workVars, TypeInv, TypeOK, SupTypeOK, SegItem

(* Steps that only move the supervisor on, or start, end or cancel work. *)
LEMMA MoveOnTypes ==
  ASSUME TypeInv,
         \/ WaitForSegment \/ CancelGet \/ IgnoreOnset \/ DropSegment \/ StartWork
         \/ FinishSegment \/ SupervisorEnds
  PROVE  TypeInv'
<1>1. QueueTypeOK'
  BY DEF WaitForSegment, CancelGet, IgnoreOnset, DropSegment, StartWork, FinishSegment,
     SupervisorEnds, TypeInv, TypeOK, QueueTypeOK, Chunk, Segment, NoChunk, NoSegment
<1>2. WorkInHand'
  BY DEF WaitForSegment, CancelGet, IgnoreOnset, DropSegment, StartWork, FinishSegment,
     SupervisorEnds, workVars, TypeInv, WorkInHand, NoSegment
<1>3. supPc' \in SupPcs /\ cur' = cur /\ cur \in Segment \cup {NoSegment}
  BY DEF WaitForSegment, CancelGet, IgnoreOnset, DropSegment, StartWork, FinishSegment,
     SupervisorEnds, TypeInv, TypeOK, SupTypeOK, SupPcs
<1>4. interrupt' \in BOOLEAN
  BY DEF WaitForSegment, CancelGet, IgnoreOnset, DropSegment, StartWork, FinishSegment,
     SupervisorEnds, TypeInv, TypeOK, SupTypeOK
<1>5. lastUtt' \in Nat
  BY <1>3 DEF WaitForSegment, CancelGet, IgnoreOnset, DropSegment, StartWork, FinishSegment,
     SupervisorEnds, TypeInv, TypeOK, SupTypeOK, Segment, NoSegment, Utterances
<1>6. /\ work' \in {"none", "running", "putting", "done", "failed"} /\ nextChunk' \in Nat
      /\ translated' \in Segment \cup {NoSegment}
  <2>1. /\ work \in {"none", "running", "putting", "done", "failed"} /\ nextChunk \in Nat
        /\ translated \in Segment \cup {NoSegment}
    BY DEF TypeInv, TypeOK, SupTypeOK
  <2>2. CASE StartWork
    BY <1>3, <2>2 DEF StartWork
  <2>3. CASE FinishSegment
    BY <2>1, <2>3 DEF FinishSegment
  <2>4. CASE UNCHANGED workVars
    BY <2>1, <2>4 DEF workVars
  <2> QED
    BY <2>2, <2>3, <2>4
    DEF WaitForSegment, CancelGet, IgnoreOnset, DropSegment, SupervisorEnds
<1>7. UNCHANGED <<noBargeIn, beyondSup>>
  BY DEF WaitForSegment, CancelGet, IgnoreOnset, DropSegment, StartWork, FinishSegment,
     SupervisorEnds
<1> QED
  BY <1>1, <1>2, <1>3, <1>4, <1>5, <1>6, <1>7, QuietSupFrame

(* The sentinel takes the place of the oldest chunk of a full queue. *)
LEMMA CloseTtsQueueTypes ==
  ASSUME TypeInv, CloseTtsQueue
  PROVE  TypeInv'
<1>1. /\ ttsQ \in Seq(TtsItem) /\ Len(ttsQ) <= QueueMax
      /\ QueueMax \in Nat \ {0} /\ NoChunk \in TtsItem
  BY QueueMaxAssumption DEF TypeInv, TypeOK, QueueTypeOK, TtsItem
<1>2. Len(ttsQ) \in Nat
  BY <1>1, LenProperties
<1>3. MakeRoom(ttsQ) \in Seq(TtsItem) /\ Len(MakeRoom(ttsQ)) < QueueMax
  <2>1. CASE Len(ttsQ) = QueueMax
    <3>1. ttsQ # <<>>
      BY <1>1, <2>1, EmptySeq
    <3>2. Tail(ttsQ) \in Seq(TtsItem) /\ Len(Tail(ttsQ)) = Len(ttsQ) - 1
      BY <1>1, <3>1, HeadTailProperties
    <3> QED
      BY <1>1, <1>2, <2>1, <3>2 DEF MakeRoom
  <2>2. CASE Len(ttsQ) # QueueMax
    BY <1>1, <1>2, <2>2 DEF MakeRoom
  <2> QED
    BY <2>1, <2>2
<1>4. Len(MakeRoom(ttsQ)) \in Nat
  BY <1>3, LenProperties
<1>5. ttsQ' \in Seq(TtsItem) /\ Len(ttsQ') <= QueueMax
  <2>1. ttsQ' = Append(MakeRoom(ttsQ), NoChunk)
    BY DEF CloseTtsQueue
  <2>2. ttsQ' \in Seq(TtsItem) /\ Len(ttsQ') = Len(MakeRoom(ttsQ)) + 1
    BY <1>1, <1>3, <2>1, AppendProperties
  <2> QED
    BY <1>1, <1>3, <1>4, <2>2
<1>6. QueueTypeOK'
  BY <1>5
  DEF CloseTtsQueue, TypeInv, TypeOK, QueueTypeOK, TtsItem, Segment, NoSegment, Chunk, NoChunk
<1>7. supPc' \in SupPcs /\ WorkInHand'
  BY DEF CloseTtsQueue, workVars, TypeInv, WorkInHand, SupPcs
<1> QED
  BY <1>6, <1>7, QuietSupFrame DEF CloseTtsQueue, workVars, TypeInv, TypeOK, SupTypeOK

---------------------------------------------------------------------------
(* Handling a barge-in.                                                    *)

Ownership == [utt : Utterances, gen : Nat]

(* _generation_for() returns the pair it has, or adds one. *)
LEMMA ClaimGenerationProperties ==
  ASSUME gens \subseteq Ownership, genSeq \in Nat,
         NEW u \in Utterances, ClaimGeneration(u)
  PROVE  /\ gens' \subseteq Ownership /\ genSeq' \in Nat
         /\ GenerationOf(u) \in Nat
         /\ gens' = gens \cup {[utt |-> u, gen |-> GenerationOf(u)]}
<1>1. GenerationOf(u) \in Nat
  <2>1. CASE HasGeneration(u)
    <3>1. (CHOOSE p \in gens : p.utt = u) \in gens
      BY <2>1 DEF HasGeneration
    <3> QED
      BY <2>1, <3>1 DEF GenerationOf, Ownership
  <2>2. CASE ~HasGeneration(u)
    BY <2>2 DEF GenerationOf
  <2> QED
    BY <2>1, <2>2
<1>2. [utt |-> u, gen |-> GenerationOf(u)] \in Ownership
  BY <1>1 DEF Ownership
<1> QED
  BY <1>1, <1>2 DEF ClaimGeneration

(* Both queues are drained, and the generations to stop are all there are. *)
LEMMA BargeInTypes ==
  ASSUME TypeInv, NEW u \in Nat, BargeIn(u),
         UNCHANGED <<invalidated, outstanding, accepted, calls>>
  PROVE  /\ QueueTypeOK' /\ SinkTypeOK'
         /\ abandoned' \subseteq Utterances
         /\ gens' \subseteq Ownership /\ stops' \subseteq gens'
         /\ supPc' \in {"next", "stopping"} /\ interrupt' \in BOOLEAN
         /\ rollRequests' \in Nat /\ rollRequests <= rollRequests'
<1>1. /\ segQ \in Seq(SegItem) /\ Len(segQ) <= QueueMax /\ NoSegment \in SegItem
      /\ ttsQ \in Seq(TtsItem) /\ Len(ttsQ) <= QueueMax /\ NoChunk \in TtsItem
      /\ gens \subseteq Ownership /\ genSeq \in Nat /\ rollRequests \in Nat
      /\ abandoned \subseteq Utterances /\ interrupt \in BOOLEAN
      /\ QueueMax \in Nat
  BY QueueMaxAssumption
  DEF TypeInv, TypeOK, QueueTypeOK, SupTypeOK, SinkTypeOK, SegItem, TtsItem, Ownership
<1>2. /\ segQ' \in Seq(SegItem) /\ Len(segQ') <= Len(segQ)
      /\ ttsQ' \in Seq(TtsItem) /\ Len(ttsQ') <= Len(ttsQ)
  BY <1>1, DrainProperties DEF BargeIn
<1>3. Len(segQ) \in Nat /\ Len(ttsQ) \in Nat /\ Len(segQ') \in Nat /\ Len(ttsQ') \in Nat
  BY <1>1, <1>2, LenProperties
<1>4. QueueTypeOK'
  BY <1>1, <1>2, <1>3
  DEF QueueTypeOK, SegItem, TtsItem, Segment, NoSegment, Chunk, NoChunk
<1>5. /\ abandoned' \subseteq Utterances /\ gens' \subseteq Ownership /\ genSeq' \in Nat
  <2>1. CASE u = 0
    BY <1>1, <2>1 DEF BargeIn
  <2>2. CASE u # 0
    <3>1. u \in Utterances /\ abandoned' = abandoned \cup {u} /\ ClaimGeneration(u)
      BY <2>2 DEF BargeIn, Utterances
    <3> QED
      BY <1>1, <3>1, ClaimGenerationProperties
  <2> QED
    BY <2>1, <2>2
<1>6. SinkTypeOK'
  BY <1>5 DEF TypeInv, TypeOK, SinkTypeOK, Handle, Call, Chunk, Segment
<1>7. stops' \subseteq gens'
  BY DEF BargeIn
<1>8. /\ supPc' \in {"next", "stopping"} /\ interrupt' \in BOOLEAN
      /\ rollRequests' \in Nat /\ rollRequests <= rollRequests'
  <2>1. CASE gens' = {}
    <3>1. supPc' = "next" /\ interrupt' = FALSE /\ rollRequests' = rollRequests + 1
      BY <2>1 DEF BargeIn, Rearm
    <3>2. rollRequests' \in Nat /\ rollRequests <= rollRequests'
      BY <1>1, <3>1
    <3> QED
      BY <3>1, <3>2
  <2>2. CASE gens' # {}
    <3>1. supPc' = "stopping" /\ UNCHANGED <<rollRequests, interrupt>>
      BY <2>2 DEF BargeIn
    <3>2. rollRequests <= rollRequests
      BY <1>1
    <3> QED
      BY <1>1, <3>1, <3>2
  <2> QED
    BY <2>1, <2>2
<1> QED
  BY <1>4, <1>5, <1>6, <1>7, <1>8

LEMMA HandleBargeInTypes ==
  ASSUME TypeInv, BargeInWhileIdle \/ BargeInOnWork
  PROVE  TypeInv'
<1>1. PICK u \in Nat : BargeIn(u)
  BY DEF BargeInWhileIdle, BargeInOnWork, TypeInv, TypeOK, SupTypeOK, Segment, Utterances,
     NoSegment
<1>2. /\ UNCHANGED <<invalidated, outstanding, accepted, calls>>
      /\ UNCHANGED <<cur, lastUtt, workVars>> /\ UNCHANGED beyondSup
      /\ supPc \in {"waking", "cancelling"}
  BY DEF BargeInWhileIdle, BargeInOnWork
<1>3. hitTurns' \subseteq Nat
  BY DEF BargeInWhileIdle, BargeInOnWork, TypeInv, TypeOK, SupTypeOK, SttTypeOK
<1>4. /\ QueueTypeOK' /\ SinkTypeOK'
      /\ abandoned' \subseteq Utterances
      /\ gens' \subseteq Ownership /\ stops' \subseteq gens'
      /\ supPc' \in {"next", "stopping"} /\ interrupt' \in BOOLEAN
      /\ rollRequests' \in Nat /\ rollRequests <= rollRequests'
  BY <1>1, <1>2, BargeInTypes
<1>5. SupTypeOK'
  BY <1>2, <1>3, <1>4
  DEF beyondSup, workVars, TypeInv, TypeOK, SupTypeOK, Segment, NoSegment, Utterances,
      SupPcs, Ownership
<1>6. WorkInHand'
  BY <1>2, <1>4 DEF workVars, TypeInv, WorkInHand
<1> QED
  BY <1>2, <1>4, <1>5, <1>6, SupFrame

LEMMA CancelWorkTypes ==
  ASSUME TypeInv, CancelWork
  PROVE  TypeInv'
<1>1. UNCHANGED <<segQ, ttsQ, ledgerVars>> /\ UNCHANGED beyondSup
  BY DEF CancelWork
<1>2. SupTypeOK'
  BY <1>1 DEF CancelWork, beyondSup, TypeInv, TypeOK, SupTypeOK, SttTypeOK, Segment,
     NoSegment, Utterances, SupPcs
<1>3. SinkTypeOK'
  BY <1>1 DEF ledgerVars, TypeInv, TypeOK, SinkTypeOK, Handle, Call, Chunk, Segment
<1>4. QueueTypeOK'
  BY <1>1 DEF TypeInv, TypeOK, QueueTypeOK, Segment, NoSegment, Chunk, NoChunk
<1>5. WorkInHand' /\ rollRequests <= rollRequests'
  BY DEF CancelWork, TypeInv, TypeOK, SupTypeOK, WorkInHand
<1> QED
  BY <1>1, <1>2, <1>3, <1>4, <1>5, SupFrame

LEMMA StopGenerationTypes ==
  ASSUME TypeInv, NEW p \in stops, StopGeneration(p)
  PROVE  TypeInv'
<1>1. /\ UNCHANGED <<segQ, ttsQ, interrupt, supPc, cur, lastUtt, workVars, rollVars>>
      /\ UNCHANGED beyondSup
      /\ stops' = stops \ {p} /\ gens' = gens \ {p}
  BY DEF StopGeneration
<1>2. /\ invalidated' = invalidated \cup {p.gen}
      /\ outstanding' = {h \in outstanding : h.gen # p.gen}
      /\ UNCHANGED <<genSeq, accepted, calls>>
  BY DEF StopGeneration, Stop
<1>3. SupTypeOK'
  <2>1. stops' \subseteq gens' /\ gens' \subseteq gens
    BY <1>1 DEF TypeInv, TypeOK, SupTypeOK
  <2>2. UNCHANGED <<supPc, cur, lastUtt, work, nextChunk, translated, interrupt, aborting,
                    rollRequests, abandoned, hitTurns>>
    BY <1>1 DEF beyondSup, workVars, rollVars
  <2> QED
    BY <2>1, <2>2 DEF TypeInv, TypeOK, SupTypeOK, Segment, NoSegment, Utterances, SupPcs
<1>4. SinkTypeOK'
  <2>1. p.gen \in Nat
    BY DEF TypeInv, TypeOK, SupTypeOK
  <2> QED
    BY <1>2, <2>1 DEF TypeInv, TypeOK, SinkTypeOK, Handle, Call, Chunk, Segment
<1>5. QueueTypeOK'
  BY <1>1 DEF TypeInv, TypeOK, QueueTypeOK, Segment, NoSegment, Chunk, NoChunk
<1>6. WorkInHand' /\ rollRequests <= rollRequests'
  BY <1>1 DEF workVars, rollVars, TypeInv, TypeOK, SupTypeOK, WorkInHand
<1> QED
  BY <1>1, <1>3, <1>4, <1>5, <1>6, SupFrame

LEMMA EndBargeInTypes ==
  ASSUME TypeInv, EndBargeIn
  PROVE  TypeInv'
<1>1. /\ UNCHANGED <<segQ, ttsQ, gens, cur, lastUtt, stops, abandoned, hitTurns, workVars,
                     ledgerVars>>
      /\ UNCHANGED beyondSup
      /\ rollRequests' = rollRequests + 1 /\ interrupt' = FALSE
      /\ supPc = "stopping" /\ supPc' = "next"
  BY DEF EndBargeIn, Rearm
<1>2. SupTypeOK'
  <2>1. rollRequests' \in Nat
    BY <1>1 DEF TypeInv, TypeOK, SupTypeOK
  <2>2. interrupt' \in BOOLEAN /\ supPc' \in SupPcs
    BY <1>1 DEF SupPcs
  <2>3. UNCHANGED <<cur, lastUtt, work, nextChunk, translated, aborting, abandoned, hitTurns,
                    gens, stops>>
    BY <1>1 DEF beyondSup, workVars
  <2> QED
    BY <2>1, <2>2, <2>3 DEF TypeInv, TypeOK, SupTypeOK, Segment, NoSegment, Utterances
<1>3. SinkTypeOK'
  BY <1>1 DEF ledgerVars, TypeInv, TypeOK, SinkTypeOK, Handle, Call, Chunk, Segment
<1>4. QueueTypeOK'
  BY <1>1 DEF TypeInv, TypeOK, QueueTypeOK, Segment, NoSegment, Chunk, NoChunk
<1>5. WorkInHand' /\ rollRequests <= rollRequests'
  BY <1>1 DEF workVars, TypeInv, TypeOK, SupTypeOK, WorkInHand
<1> QED
  BY <1>1, <1>2, <1>3, <1>4, <1>5, SupFrame

---------------------------------------------------------------------------
(* Failures and cancellation.                                              *)

(* The cancelled STT stage runs its finally clause, or loses it. *)
LEMMA AbortGroupTypes ==
  ASSUME TypeInv, AbortGroup
  PROVE  /\ SttTypeOK' /\ segQ' \in Seq(SegItem) /\ Len(segQ') <= QueueMax
         /\ aborting' \in BOOLEAN /\ bargePc' \in {"watch", "done"} /\ rollDone' = rollDone
<1>1. /\ segQ \in Seq(SegItem) /\ Len(segQ) <= QueueMax
      /\ SttTypeOK /\ aborting \in BOOLEAN /\ bargePc \in {"watch", "done"}
  BY DEF TypeInv, TypeOK, QueueTypeOK, SupTypeOK, SegItem
<1>2. CASE aborting
  <2>1. UNCHANGED <<aborting, segQ, bargePc>> /\ UNCHANGED sttVars
    BY <1>2 DEF AbortGroup
  <2>2. SttTypeOK' /\ rollDone' = rollDone
    BY <1>1, <2>1 DEF sttVars, SttTypeOK, Segment, SttPcs, Utterances
  <2> QED
    BY <1>1, <2>1, <2>2
<1>3. CASE ~aborting
  <2>1. aborting' = TRUE /\ AbortSttStage /\ bargePc' = "done"
    BY <1>3 DEF AbortGroup
  <2>2. /\ puts' = <<>>
        /\ UNCHANGED <<turn, curTurn, staleTurns, utt, committed, closed, ending, rollDone>>
    BY <2>1 DEF AbortSttStage
  <2>3. \/ PutSentinel
        \/ sttPc' = "done" /\ UNCHANGED segQ
        \/ UNCHANGED <<sttPc, segQ>>
    BY <2>1 DEF AbortSttStage
  <2>4. /\ segQ' \in Seq(SegItem) /\ Len(segQ') <= QueueMax /\ sttPc' \in SttPcs
    BY <1>1, <2>3, PutSentinelTypes DEF SttTypeOK, SttPcs
  <2>5. SttTypeOK'
    BY <1>1, <2>2, <2>4 DEF SttTypeOK, Segment, SttPcs, Utterances
  <2> QED
    BY <2>1, <2>2, <2>4, <2>5
<1> QED
  BY <1>2, <1>3

(* The end of the supervisor: it fails, or is cancelled with its session. *)
LEMMA FailureTypes ==
  ASSUME TypeInv, SupervisorFails \/ CancelSession
  PROVE  TypeInv'
<1>1. /\ AbortGroup
      /\ SupervisorRaises \/ UNCHANGED <<supPc, work, playPc, calls>>
      /\ UNCHANGED <<ttsQ, interrupt, gens, cur, lastUtt, stops, nextChunk, translated,
                     onsets, heard, genSeq, invalidated, outstanding, accepted>>
      /\ UNCHANGED rollVars
  BY DEF SupervisorFails, CancelSession
<1>2. /\ SttTypeOK' /\ segQ' \in Seq(SegItem) /\ Len(segQ') <= QueueMax
      /\ aborting' \in BOOLEAN /\ bargePc' \in {"watch", "done"} /\ rollDone' = rollDone
  BY <1>1, AbortGroupTypes
<1>3. /\ supPc' \in SupPcs /\ work' \in {"none", "running", "putting", "done", "failed"}
      /\ playPc' \in PlayPcs /\ calls' \subseteq calls
  BY <1>1 DEF SupervisorRaises, TypeInv, TypeOK, SupTypeOK, SupPcs, PlayPcs
<1>4. SupTypeOK'
  <2>1. UNCHANGED <<cur, lastUtt, nextChunk, translated, interrupt, rollRequests, abandoned,
                    hitTurns, gens, stops>>
    BY <1>1 DEF rollVars
  <2> QED
    BY <1>2, <1>3, <2>1
    DEF TypeInv, TypeOK, SupTypeOK, Segment, NoSegment, Utterances, SupPcs
<1>5. QueueTypeOK'
  BY <1>1, <1>2
  DEF TypeInv, TypeOK, QueueTypeOK, SegItem, Segment, NoSegment, Chunk, NoChunk
<1>6. SinkTypeOK'
  BY <1>1, <1>3 DEF TypeInv, TypeOK, SinkTypeOK, Handle, Call, Chunk, Segment
<1>7. WorkInHand'
  BY <1>1 DEF SupervisorRaises, TypeInv, WorkInHand
<1>8. rollDone' <= rollRequests' /\ onsets' \in Nat /\ heard' \in Chunk \cup {NoChunk}
  BY <1>1, <1>2 DEF rollVars, TypeInv, TypeOK
<1> QED
  BY <1>2, <1>3, <1>4, <1>5, <1>6, <1>7, <1>8 DEF TypeInv, TypeOK

---------------------------------------------------------------------------
(* The work task.                                                          *)

LEMMA WorkFrame ==
  ASSUME TypeInv, UNCHANGED <<translated, beyondWork>>,
         work \in {"running", "putting"},
         work' \in {"running", "putting", "done", "failed"}, nextChunk' \in Nat,
         ttsQ' \in Seq(TtsItem), Len(ttsQ') <= QueueMax
  PROVE  TypeInv'
<1>1. UNCHANGED <<segQ, interrupt, gens, aborting, playPc, heard>>
  BY DEF beyondWork
<1>2. /\ UNCHANGED <<supPc, cur, lastUtt, stops, rollRequests, abandoned, hitTurns>>
      /\ UNCHANGED ledgerVars /\ UNCHANGED sttVars /\ UNCHANGED <<bargePc, onsets>>
  BY DEF beyondWork, supVars, rollVars, bargeVars
<1>3. SttTypeOK' /\ rollDone' <= rollRequests'
  BY <1>2 DEF sttVars, TypeInv, TypeOK, SttTypeOK, Segment, SttPcs, Utterances
<1>4. SupTypeOK'
  BY <1>1, <1>2 DEF TypeInv, TypeOK, SupTypeOK, Segment, NoSegment, Utterances, SupPcs
<1>5. QueueTypeOK'
  BY <1>1 DEF TypeInv, TypeOK, QueueTypeOK, TtsItem, Segment, NoSegment, Chunk, NoChunk
<1>6. SinkTypeOK'
  BY <1>2 DEF ledgerVars, TypeInv, TypeOK, SinkTypeOK, Handle, Call, Chunk, Segment
<1>7. WorkInHand'
  BY <1>2 DEF TypeInv, WorkInHand
<1> QED
  BY <1>1, <1>2, <1>3, <1>4, <1>5, <1>6, <1>7 DEF TypeInv, TypeOK

(* A chunk is put only where there is room for it. *)
LEMMA SendChunkTypes ==
  ASSUME TypeInv, WorkUnfinished, Len(ttsQ) < QueueMax, SendChunk
  PROVE  ttsQ' \in Seq(TtsItem) /\ Len(ttsQ') <= QueueMax
<1>1. ttsQ \in Seq(TtsItem) /\ Len(ttsQ) \in Nat /\ QueueMax \in Nat
  BY LenProperties, QueueMaxAssumption DEF TypeInv, TypeOK, QueueTypeOK, TtsItem
<1>2. cur \in Segment /\ nextChunk \in Nat
  BY DEF WorkUnfinished, TypeInv, TypeOK, SupTypeOK, WorkInHand
<1>3. [seg |-> cur, k |-> nextChunk] \in TtsItem
  BY <1>2 DEF TtsItem, Chunk
<1>4. ttsQ' \in Seq(TtsItem) /\ Len(ttsQ') = Len(ttsQ) + 1
  BY <1>1, <1>3, AppendProperties DEF SendChunk
<1> QED
  BY <1>1, <1>4

LEMMA WorkTypes ==
  ASSUME TypeInv, WorkStep \/ FailWork
  PROVE  TypeInv'
<1>1. /\ ttsQ \in Seq(TtsItem) /\ Len(ttsQ) <= QueueMax
      /\ nextChunk \in Nat /\ nextChunk + 1 \in Nat
  BY DEF TypeInv, TypeOK, QueueTypeOK, SupTypeOK, TtsItem
<1>2. CASE YieldChunk
  <2>1. ttsQ' \in Seq(TtsItem) /\ Len(ttsQ') <= QueueMax
    BY <1>1, <1>2, SendChunkTypes DEF YieldChunk, WorkUnfinished
  <2>2. /\ work = "running" /\ work' \in {"running", "putting"} /\ nextChunk' \in Nat
        /\ UNCHANGED <<translated, beyondWork>>
    BY <1>1, <1>2 DEF YieldChunk
  <2> QED
    BY <2>1, <2>2, WorkFrame
<1>3. CASE ResumePutChunk
  <2>1. ttsQ' \in Seq(TtsItem) /\ Len(ttsQ') <= QueueMax
    BY <1>1, <1>3, SendChunkTypes DEF ResumePutChunk, WorkUnfinished
  <2>2. /\ work = "putting" /\ work' = "running" /\ nextChunk' \in Nat
        /\ UNCHANGED <<translated, beyondWork>>
    BY <1>1, <1>3 DEF ResumePutChunk
  <2> QED
    BY <2>1, <2>2, WorkFrame
<1>4. CASE EndWork \/ FailWork
  <2>1. /\ work = "running" /\ work' \in {"done", "failed"}
        /\ UNCHANGED <<ttsQ, nextChunk>> /\ UNCHANGED <<translated, beyondWork>>
    BY <1>4 DEF EndWork, FailWork
  <2> QED
    BY <1>1, <2>1, WorkFrame
<1> QED
  BY <1>2, <1>3, <1>4 DEF WorkStep

---------------------------------------------------------------------------
(* Playback, the sink and the barge-in stage.                              *)

LEMMA PlayFrame ==
  ASSUME TypeInv, UNCHANGED beyondPlay, playPc' \in PlayPcs,
         ttsQ' \in Seq(TtsItem), Len(ttsQ') <= QueueMax,
         gens' \subseteq Ownership, stops \subseteq gens', SinkTypeOK'
  PROVE  TypeInv'
<1>1. UNCHANGED <<segQ, interrupt, aborting, heard>>
  BY DEF beyondPlay
<1>2. /\ UNCHANGED <<supPc, cur, lastUtt, stops, rollRequests, abandoned, hitTurns>>
      /\ UNCHANGED <<work, nextChunk, translated>>
      /\ UNCHANGED sttVars /\ UNCHANGED <<bargePc, onsets>>
  BY DEF beyondPlay, supVars, rollVars, workVars, bargeVars
<1>3. SttTypeOK' /\ rollDone' <= rollRequests'
  BY <1>2 DEF sttVars, TypeInv, TypeOK, SttTypeOK, Segment, SttPcs, Utterances
<1>4. SupTypeOK'
  BY <1>1, <1>2
  DEF TypeInv, TypeOK, SupTypeOK, Segment, NoSegment, Utterances, SupPcs, Ownership
<1>5. QueueTypeOK'
  BY <1>1 DEF TypeInv, TypeOK, QueueTypeOK, TtsItem, Segment, NoSegment, Chunk, NoChunk
<1>6. WorkInHand'
  BY <1>2 DEF TypeInv, WorkInHand
<1> QED
  BY <1>1, <1>2, <1>3, <1>4, <1>5, <1>6 DEF TypeInv, TypeOK

(* schedule() adds a well-typed handle or a well-typed blocked call. *)
LEMMA AdmitTypes ==
  ASSUME SinkTypeOK, NEW g \in Nat, NEW c \in Chunk, Admit(g, c),
         genSeq' \in Nat, UNCHANGED invalidated, calls' \subseteq Call(Chunk)
  PROVE  SinkTypeOK'
<1> DEFINE new == [order |-> accepted, gen |-> g, unit |-> c, sounding |-> FALSE]
<1>1. new \in Handle(Chunk)
  BY DEF SinkTypeOK, Handle
<1>2. CASE g \in invalidated
  BY <1>2 DEF Admit, SinkTypeOK, Handle, Call, Chunk, Segment
<1>3. CASE g \notin invalidated
  <2>1. outstanding' = outstanding \cup {new} /\ accepted' = accepted + 1
    BY <1>3 DEF Admit
  <2> HIDE DEF new
  <2>2. outstanding' \subseteq Handle(Chunk) /\ accepted' \in Nat
    BY <1>1, <2>1 DEF SinkTypeOK
  <2> QED
    BY <2>2 DEF SinkTypeOK, Handle, Call, Chunk, Segment
<1> QED
  BY <1>2, <1>3

LEMMA ScheduleTypes ==
  ASSUME SinkTypeOK, NEW g \in Nat, NEW c \in Chunk, Schedule(g, c), genSeq' \in Nat
  PROVE  SinkTypeOK'
<1>1. CASE Schedulable(g)
  BY <1>1, AdmitTypes DEF Schedule, SinkTypeOK
<1>2. CASE ~Schedulable(g)
  <2>1. /\ calls' = calls \cup {[gen |-> g, unit |-> c]}
        /\ UNCHANGED <<outstanding, accepted, invalidated>>
    BY <1>2 DEF Schedule
  <2>2. [gen |-> g, unit |-> c] \in Call(Chunk)
    BY DEF Call
  <2>3. calls' \subseteq Call(Chunk)
    BY <2>1, <2>2 DEF SinkTypeOK
  <2> QED
    BY <2>1, <2>3 DEF SinkTypeOK, Handle, Call, Chunk, Segment
<1> QED
  BY <1>1, <1>2

LEMMA PlaybackTypes ==
  ASSUME TypeInv, PlaybackStep \/ FailPlayback
  PROVE  TypeInv'
<1>1. /\ ttsQ \in Seq(TtsItem) /\ Len(ttsQ) <= QueueMax
      /\ gens \subseteq Ownership /\ stops \subseteq gens /\ SinkTypeOK
      /\ QueueMax \in Nat /\ Len(ttsQ) \in Nat
  BY LenProperties, QueueMaxAssumption
  DEF TypeInv, TypeOK, QueueTypeOK, SupTypeOK, TtsItem, Ownership
<1>2. ttsQ # <<>> =>
        /\ Head(ttsQ) \in TtsItem
        /\ Tail(ttsQ) \in Seq(TtsItem) /\ Len(Tail(ttsQ)) <= QueueMax
  BY <1>1, HeadTailProperties
<1>3. CASE PlaybackEof \/ FinishDrain
  <2>1. /\ playPc' \in PlayPcs /\ gens' = gens
        /\ UNCHANGED ledgerVars /\ UNCHANGED beyondPlay
    BY <1>3 DEF PlaybackEof, FinishDrain, PlayPcs
  <2>2. ttsQ' \in Seq(TtsItem) /\ Len(ttsQ') <= QueueMax
    BY <1>1, <1>2, <1>3 DEF PlaybackEof, FinishDrain, HasChunk
  <2>3. SinkTypeOK'
    BY <1>1, <2>1 DEF ledgerVars, SinkTypeOK, Handle, Call, Chunk, Segment
  <2> QED
    BY <1>1, <2>1, <2>2, <2>3, PlayFrame
<1>4. CASE PlayChunk
  <2> DEFINE c == Head(ttsQ)
  <2>1. c \in Chunk /\ c.seg.utt \in Utterances
    BY <1>2, <1>4 DEF PlayChunk, HasChunk, TtsItem, Chunk, Segment
  <2>2. ttsQ' \in Seq(TtsItem) /\ Len(ttsQ') <= QueueMax /\ UNCHANGED beyondPlay
    BY <1>2, <1>4 DEF PlayChunk, HasChunk
  <2>3. CASE c.seg.utt \in abandoned
    <3>1. UNCHANGED <<gens, playPc>> /\ UNCHANGED ledgerVars
      BY <1>4, <2>3 DEF PlayChunk
    <3>2. SinkTypeOK' /\ playPc' \in PlayPcs
      BY <1>1, <3>1
      DEF ledgerVars, SinkTypeOK, Handle, Call, Chunk, Segment, TypeInv, TypeOK
    <3> QED
      BY <1>1, <2>2, <3>1, <3>2, PlayFrame
  <2>4. CASE c.seg.utt \notin abandoned
    <3> DEFINE g == GenerationOf(c.seg.utt)
    <3>1. /\ ClaimGeneration(c.seg.utt) /\ Schedule(g, c)
          /\ playPc' = IF Schedulable(g) THEN "get" ELSE "blocked"
      BY <1>4, <2>4 DEF PlayChunk
    <3>2. gens' \subseteq Ownership /\ genSeq' \in Nat /\ g \in Nat /\ gens \subseteq gens'
      BY <1>1, <2>1, <3>1, ClaimGenerationProperties DEF SinkTypeOK
    <3> HIDE DEF g, c
    <3>3. SinkTypeOK'
      BY <1>1, <2>1, <3>1, <3>2, ScheduleTypes
    <3>4. playPc' \in PlayPcs /\ stops \subseteq gens'
      BY <1>1, <3>1, <3>2 DEF PlayPcs
    <3> QED
      BY <2>2, <3>2, <3>3, <3>4, PlayFrame
  <2> QED
    BY <2>3, <2>4
<1>5. CASE ResumeSchedule
  <2>1. /\ playPc' \in PlayPcs /\ UNCHANGED <<ttsQ, gens>> /\ UNCHANGED beyondPlay
    BY <1>5 DEF ResumeSchedule, PlayPcs
  <2>2. PICK c \in calls : Resume(c)
    BY <1>5 DEF ResumeSchedule
  <2>3. c.gen \in Nat /\ c.unit \in Chunk
    BY <1>1 DEF SinkTypeOK, Call
  <2>4. /\ Admit(c.gen, c.unit) /\ calls' = calls \ {c}
        /\ UNCHANGED <<genSeq, invalidated>>
    BY <2>2 DEF Resume
  <2>5. calls' \subseteq Call(Chunk) /\ genSeq' \in Nat
    BY <1>1, <2>4 DEF SinkTypeOK
  <2>6. SinkTypeOK'
    BY <1>1, <2>3, <2>4, <2>5, AdmitTypes
  <2> QED
    BY <1>1, <2>1, <2>6, PlayFrame
<1>6. CASE FailPlayback
  <2>1. /\ playPc' \in PlayPcs /\ gens' = gens /\ UNCHANGED beyondPlay /\ calls' = {}
        /\ UNCHANGED <<genSeq, invalidated, outstanding, accepted>>
    BY <1>6 DEF FailPlayback, PlayPcs
  <2>2. ttsQ' \in Seq(TtsItem) /\ Len(ttsQ') <= QueueMax
    BY <1>1, <1>2, <1>6 DEF FailPlayback, HasChunk
  <2>3. SinkTypeOK'
    BY <1>1, <2>1 DEF SinkTypeOK, Handle, Call, Chunk, Segment
  <2> QED
    BY <1>1, <2>1, <2>2, <2>3, PlayFrame
<1> QED
  BY <1>3, <1>4, <1>5, <1>6 DEF PlaybackStep

(* A chunk begins or ends to sound. *)
LEMMA SinkTypes ==
  ASSUME TypeInv, SinkStep
  PROVE  TypeInv'
<1>1. PICK h \in outstanding : Sound(h) \/ Quiet(h)
  BY DEF SinkStep
<1>2. /\ outstanding \subseteq Handle(Chunk) /\ h \in Handle(Chunk)
      /\ heard \in Chunk \cup {NoChunk}
  BY DEF TypeInv, TypeOK, SinkTypeOK
<1>3. [h EXCEPT !.sounding = TRUE] \in Handle(Chunk) /\ h.unit \in Chunk
  BY <1>2 DEF Handle
<1>4. /\ outstanding' \subseteq outstanding \cup {[h EXCEPT !.sounding = TRUE]}
      /\ UNCHANGED <<genSeq, invalidated, accepted, calls>>
      /\ heard' \in {heard, h.unit}
      /\ UNCHANGED beyondSink
  BY <1>1 DEF Sound, Quiet, StartSounding, FinishSounding
<1>5. outstanding' \subseteq Handle(Chunk) /\ heard' \in Chunk \cup {NoChunk}
  BY <1>2, <1>3, <1>4
<1>6. SinkTypeOK'
  BY <1>4, <1>5 DEF TypeInv, TypeOK, SinkTypeOK, Handle, Call, Chunk, Segment
<1>7. SttTypeOK' /\ rollDone' <= rollRequests'
  BY <1>4 DEF beyondSink, sttVars, supVars, rollVars, TypeInv, TypeOK, SttTypeOK, Segment,
     SttPcs, Utterances
<1>8. UNCHANGED <<interrupt, aborting, gens>> /\ UNCHANGED supVars /\ UNCHANGED workVars
  BY <1>4 DEF beyondSink
<1>9. SupTypeOK' /\ WorkInHand'
  BY <1>8 DEF supVars, rollVars, workVars, TypeInv, TypeOK, SupTypeOK,
     Segment, NoSegment, Utterances, SupPcs, WorkInHand
<1>10. QueueTypeOK'
  BY <1>4 DEF beyondSink, TypeInv, TypeOK, QueueTypeOK, Segment, NoSegment, Chunk, NoChunk
<1>11. playPc' \in PlayPcs /\ bargePc' \in {"watch", "done"} /\ onsets' \in Nat
  BY <1>4 DEF beyondSink, bargeVars, TypeInv, TypeOK
<1> QED
  BY <1>5, <1>6, <1>7, <1>9, <1>10, <1>11 DEF TypeInv, TypeOK

(* An onset, the end of the microphone, and steps that change nothing. *)
LEMMA OnsetTypes ==
  ASSUME TypeInv, BargeStep \/ UNCHANGED vars
  PROVE  TypeInv'
<1>1. UNCHANGED beyondBarge
  BY DEF BargeStep, Onset, BargeStreamEnds, vars, beyondBarge
<1>2. bargePc' \in {"watch", "done"} /\ onsets' \in Nat /\ interrupt' \in BOOLEAN
  <2>1. bargePc \in {"watch", "done"} /\ onsets \in Nat /\ interrupt \in BOOLEAN
    BY DEF TypeInv, TypeOK, SupTypeOK
  <2>2. CASE Onset
    <3>1. onsets' = onsets + 1 /\ bargePc' = bargePc
      BY <2>2 DEF Onset
    <3>2. onsets' \in Nat
      BY <2>1, <3>1
    <3>3. interrupt' = TRUE
      BY <2>2 DEF Onset
    <3> QED
      BY <2>1, <3>1, <3>2, <3>3
  <2>3. CASE BargeStreamEnds \/ UNCHANGED vars
    BY <2>1, <2>3 DEF BargeStreamEnds, vars, bargeVars
  <2> QED
    BY <2>2, <2>3 DEF BargeStep
<1>3. /\ UNCHANGED <<segQ, ttsQ, gens, aborting, playPc, heard>>
      /\ UNCHANGED sttVars /\ UNCHANGED supVars /\ UNCHANGED workVars
      /\ UNCHANGED ledgerVars
  BY <1>1 DEF beyondBarge
<1>4. SttTypeOK' /\ rollDone' <= rollRequests'
  BY <1>3 DEF sttVars, supVars, rollVars, TypeInv, TypeOK, SttTypeOK, Segment, SttPcs,
     Utterances
<1>5. SupTypeOK' /\ WorkInHand'
  BY <1>2, <1>3 DEF supVars, rollVars, workVars, TypeInv, TypeOK, SupTypeOK,
     Segment, NoSegment, Utterances, SupPcs, WorkInHand
<1>6. QueueTypeOK'
  BY <1>3 DEF TypeInv, TypeOK, QueueTypeOK, Segment, NoSegment, Chunk, NoChunk
<1>7. SinkTypeOK'
  BY <1>3 DEF ledgerVars, TypeInv, TypeOK, SinkTypeOK, Handle, Call, Chunk, Segment
<1>8. playPc' \in PlayPcs /\ heard' \in Chunk \cup {NoChunk}
  BY <1>3 DEF TypeInv, TypeOK
<1> QED
  BY <1>2, <1>4, <1>5, <1>6, <1>7, <1>8 DEF TypeInv, TypeOK

---------------------------------------------------------------------------

LEMMA TypesInit == Init => TypeInv
<1> SUFFICES ASSUME Init PROVE TypeInv
  OBVIOUS
<1>1. SttTypeOK
  <2>1. 1 \in Utterances /\ 1 \in Nat
    BY DEF Utterances
  <2>2. puts \in Seq(Segment) /\ ending \in BOOLEAN /\ sttPc \in SttPcs
    <3>1. puts = <<>> /\ ending = FALSE /\ sttPc = "listen"
      BY DEF Init
    <3>2. puts \in Seq(Segment)
      BY <3>1, EmptySeq
    <3>3. ending \in BOOLEAN
      BY <3>1
    <3>4. sttPc \in SttPcs
      BY <3>1 DEF SttPcs
    <3> QED
      BY <3>2, <3>3, <3>4
  <2>3. /\ turn \in Nat /\ curTurn \in Nat /\ staleTurns \subseteq Nat
        /\ utt \in Utterances /\ committed \in Nat /\ closed \in Nat /\ rollDone \in Nat
    BY <2>1 DEF Init
  <2> QED
    BY <2>2, <2>3 DEF SttTypeOK
<1>2. QueueTypeOK
  BY QueueMaxAssumption DEF Init, QueueTypeOK
<1>3. SupTypeOK
  BY DEF Init, SupTypeOK, SupPcs
<1>4. SinkTypeOK
  BY DEF Init, LedgerInit, SinkTypeOK
<1> QED
  BY <1>1, <1>2, <1>3, <1>4 DEF Init, TypeInv, TypeOK, WorkInHand, PlayPcs

LEMMA TypesNext == TypeInv /\ [Next]_vars => TypeInv'
<1> SUFFICES ASSUME TypeInv, [Next]_vars PROVE TypeInv'
  OBVIOUS
<1>1. CASE SttStep
  BY <1>1, SttTypes
<1>2. CASE SupervisorStep
  BY <1>2, TakeSegmentTypes, MoveOnTypes, CloseTtsQueueTypes, HandleBargeInTypes,
     CancelWorkTypes, StopGenerationTypes, EndBargeInTypes, FailureTypes
  DEF SupervisorStep
<1>3. CASE WorkStep \/ FailWork
  BY <1>3, WorkTypes
<1>4. CASE PlaybackStep \/ FailPlayback
  BY <1>4, PlaybackTypes
<1>5. CASE SinkStep
  BY <1>5, SinkTypes
<1>6. CASE BargeStep \/ UNCHANGED vars
  BY <1>6, OnsetTypes
<1>7. CASE CancelSession
  BY <1>7, FailureTypes
<1> QED
  BY <1>1, <1>2, <1>3, <1>4, <1>5, <1>6, <1>7 DEF Next, FaultStep, Finish

(* Besides its types, the pipeline has a work task only while one is raced. *)
THEOREM TypeInvariant == Spec => []TypeInv
BY TypesInit, TypesNext, PTL DEF Spec

(* The pipeline keeps its types and its queues keep their bound. *)
THEOREM PipelineTypeOK == Spec => []TypeOK
<1>1. TypeInv => TypeOK
  BY DEF TypeInv
<1> QED
  BY <1>1, TypeInvariant, PTL

---------------------------------------------------------------------------
(* Barge-in: what silences an abandoned utterance.                         *)

(* The utterance and the generation of a handle or of a blocked call. *)
Pair(x) == [utt |-> x.unit.seg.utt, gen |-> x.gen]

SupEnding == {"draining", "done", "failed"}

StopsEverything ==
  supPc = "stopping" => ttsQ = <<>> /\ stops = gens

NoEarlySentinel ==
  supPc \notin SupEnding => \A i \in DOMAIN ttsQ : ttsQ[i] # NoChunk

LiveGenerations ==
  supPc # "stopping" => \A p \in gens : p.utt \notin abandoned

HandlesAreOwned ==
  /\ \A h \in outstanding : Pair(h) \in gens
  /\ \A c \in calls : c.gen \in invalidated \/ Pair(c) \in gens

QuietPipe ==
  /\ WorkUnfinished => cur.utt \notin abandoned
  /\ \A i \in DOMAIN ttsQ : ttsQ[i].seg.utt \notin abandoned

SilenceInv ==
  /\ StopsEverything /\ NoEarlySentinel /\ LiveGenerations
  /\ HandlesAreOwned /\ QuietPipe

(* The invariant is all that the two properties about silence need. *)
LEMMA SilenceInvSuffices ==
  ASSUME TypeInv, SilenceInv
  PROVE  SilentAfterBargeIn /\ BargeInEmptiesSink
<1>1. ASSUME supPc # "stopping"
      PROVE  /\ \A h \in outstanding : h.unit.seg.utt \notin abandoned
             /\ \A c \in calls : c.unit.seg.utt \in abandoned => c.gen \in invalidated
  BY <1>1 DEF SilenceInv, LiveGenerations, HandlesAreOwned, Pair
<1>2. SilentAfterBargeIn
  BY <1>1 DEF SilenceInv, QuietPipe, SilentAfterBargeIn
<1>3. BargeInEmptiesSink
  BY DEF SilenceInv, StopsEverything, HandlesAreOwned, BargeInEmptiesSink
<1> QED
  BY <1>2, <1>3

(* Steps that neither schedule, nor queue, nor stop, nor abandon anything. *)
LEMMA SilenceFrame ==
  ASSUME SilenceInv,
         UNCHANGED <<ttsQ, gens, stops, abandoned, invalidated>>,
         calls' \subseteq calls,
         \A h \in outstanding' : \E x \in outstanding : Pair(h) = Pair(x),
         supPc' = "stopping" <=> supPc = "stopping",
         supPc \in SupEnding => supPc' \in SupEnding,
         WorkUnfinished' => cur'.utt \notin abandoned
  PROVE  SilenceInv'
<1>1. StopsEverything' /\ LiveGenerations'
  BY DEF SilenceInv, StopsEverything, LiveGenerations
<1>2. NoEarlySentinel'
  BY DEF SilenceInv, NoEarlySentinel, NoChunk, NoSegment, SupEnding
<1>3. HandlesAreOwned'
  <2>1. \A h \in outstanding' : Pair(h) \in gens
    BY DEF SilenceInv, HandlesAreOwned
  <2>2. \A c \in calls' : c.gen \in invalidated \/ Pair(c) \in gens
    BY DEF SilenceInv, HandlesAreOwned
  <2> QED
    BY <2>1, <2>2 DEF HandlesAreOwned, Pair
<1>4. QuietPipe'
  BY DEF SilenceInv, QuietPipe
<1> QED
  BY <1>1, <1>2, <1>3, <1>4 DEF SilenceInv

(***************************************************************************)
(* The moment of a barge-in: everything queued goes, the abandoned         *)
(* utterance has a generation, and every generation is listed for stop().  *)
(***************************************************************************)
LEMMA BargeInSilence ==
  ASSUME TypeInv, SilenceInv, NEW u \in Nat, BargeIn(u),
         supPc \in {"waking", "cancelling"},
         UNCHANGED <<invalidated, outstanding, calls, work>>
  PROVE  SilenceInv'
<1>1. ttsQ' = <<>>
  <2>1. \A i \in DOMAIN ttsQ : ttsQ[i] # NoChunk
    BY DEF SilenceInv, NoEarlySentinel, SupEnding
  <2>2. ttsQ \in Seq(TtsItem) /\ NoChunk \in TtsItem
    BY DEF TypeInv, TypeOK, QueueTypeOK, TtsItem
  <2> QED
    BY <2>1, <2>2, DrainProperties DEF BargeIn
<1>2. gens \subseteq gens' /\ (u # 0 => gens' # {}) /\ stops' = gens'
  BY DEF BargeIn, ClaimGeneration
<1>3. work' = "none"
  BY DEF TypeInv, WorkInHand
<1>4. \/ supPc' = "stopping"
      \/ supPc' = "next" /\ gens' = {}
  BY DEF BargeIn, Rearm
<1>5. StopsEverything' /\ LiveGenerations'
  BY <1>1, <1>2, <1>4 DEF StopsEverything, LiveGenerations
<1>6. NoEarlySentinel' /\ QuietPipe'
  BY <1>1, <1>3 DEF NoEarlySentinel, QuietPipe, WorkUnfinished
<1>7. HandlesAreOwned'
  <2>1. /\ \A h \in outstanding : Pair(h) \in gens'
        /\ \A c \in calls : c.gen \in invalidated \/ Pair(c) \in gens'
    BY <1>2 DEF SilenceInv, HandlesAreOwned
  <2> QED
    BY <2>1 DEF HandlesAreOwned, Pair
<1> QED
  BY <1>5, <1>6, <1>7 DEF SilenceInv

(* stop() of one generation; when none is left, the sink is empty. *)
LEMMA StopSilence ==
  ASSUME TypeInv, SilenceInv, NEW p \in stops, StopGeneration(p)
  PROVE  SilenceInv'
<1>1. /\ UNCHANGED <<ttsQ, supPc, cur, work, abandoned>> /\ supPc = "stopping"
      /\ stops' = stops \ {p} /\ gens' = gens \ {p}
  BY DEF StopGeneration, workVars, rollVars
<1>2. /\ invalidated' = invalidated \cup {p.gen}
      /\ outstanding' = {h \in outstanding : h.gen # p.gen}
      /\ calls' = calls
  BY DEF StopGeneration, Stop
<1>3. HandlesAreOwned'
  <2>1. ASSUME NEW h \in outstanding, h.gen # p.gen PROVE Pair(h) \in gens \ {p}
    BY <2>1 DEF SilenceInv, HandlesAreOwned, Pair
  <2>2. ASSUME NEW c \in calls
        PROVE  c.gen \in invalidated \cup {p.gen} \/ Pair(c) \in gens \ {p}
    BY DEF SilenceInv, HandlesAreOwned, Pair
  <2> QED
    BY <1>1, <1>2, <2>1, <2>2 DEF HandlesAreOwned, Pair
<1>4. StopsEverything' /\ LiveGenerations'
  BY <1>1 DEF SilenceInv, StopsEverything, LiveGenerations
<1>5. NoEarlySentinel'
  BY <1>1 DEF SilenceInv, NoEarlySentinel, NoChunk, NoSegment, SupEnding
<1>6. QuietPipe'
  BY <1>1 DEF SilenceInv, QuietPipe, WorkUnfinished
<1> QED
  BY <1>3, <1>4, <1>5, <1>6 DEF SilenceInv

LEMMA EndBargeInSilence ==
  ASSUME SilenceInv, EndBargeIn
  PROVE  SilenceInv'
<1>1. /\ UNCHANGED <<ttsQ, gens, stops, abandoned, cur, work>>
      /\ UNCHANGED <<invalidated, outstanding, calls>>
      /\ supPc = "stopping" /\ stops = {} /\ supPc' = "next"
  BY DEF EndBargeIn, Rearm, workVars, ledgerVars
<1>2. ttsQ = <<>> /\ gens = {}
  BY <1>1 DEF SilenceInv, StopsEverything
<1>3. StopsEverything' /\ LiveGenerations' /\ NoEarlySentinel'
  BY <1>1, <1>2 DEF StopsEverything, LiveGenerations, NoEarlySentinel
<1>4. HandlesAreOwned'
  BY <1>1 DEF SilenceInv, HandlesAreOwned, Pair
<1>5. QuietPipe'
  BY <1>1 DEF SilenceInv, QuietPipe, WorkUnfinished
<1> QED
  BY <1>3, <1>4, <1>5 DEF SilenceInv

(***************************************************************************)
(* Steps that change tts_queue only: what is added is not of an abandoned  *)
(* utterance, and a sentinel comes last.                                   *)
(***************************************************************************)
LEMMA TtsQueueSilence ==
  ASSUME SilenceInv, supPc # "stopping",
         UNCHANGED <<gens, stops, abandoned, cur>>,
         UNCHANGED <<invalidated, outstanding, calls>>,
         supPc' # "stopping", supPc \in SupEnding => supPc' \in SupEnding,
         WorkUnfinished' => WorkUnfinished,
         \A i \in DOMAIN ttsQ' :
           /\ ttsQ'[i].seg.utt \notin abandoned
           /\ supPc' \notin SupEnding => ttsQ'[i] # NoChunk
  PROVE  SilenceInv'
<1>1. StopsEverything' /\ LiveGenerations'
  BY DEF SilenceInv, StopsEverything, LiveGenerations
<1>2. NoEarlySentinel'
  BY DEF NoEarlySentinel, NoChunk, NoSegment, SupEnding
<1>3. HandlesAreOwned'
  BY DEF SilenceInv, HandlesAreOwned, Pair
<1>4. QuietPipe'
  BY DEF SilenceInv, QuietPipe
<1> QED
  BY <1>1, <1>2, <1>3, <1>4 DEF SilenceInv

LEMMA NoChunkIsNotAbandoned ==
  ASSUME TypeInv
  PROVE  NoChunk.seg.utt \notin abandoned
BY DEF TypeInv, TypeOK, SupTypeOK, Utterances, NoChunk, NoSegment

LEMMA CloseTtsQueueSilence ==
  ASSUME TypeInv, SilenceInv, CloseTtsQueue
  PROVE  SilenceInv'
<1>1. /\ supPc = "got" /\ supPc' = "draining"
      /\ ttsQ' = Append(MakeRoom(ttsQ), NoChunk)
      /\ UNCHANGED <<gens, stops, abandoned, cur, work>>
      /\ UNCHANGED <<invalidated, outstanding, calls>>
  BY DEF CloseTtsQueue, noBargeIn, rollVars, ledgerVars, workVars
<1>2. ttsQ \in Seq(TtsItem) /\ Len(ttsQ) \in Nat /\ NoChunk \in TtsItem
      /\ DOMAIN ttsQ = 1..Len(ttsQ)
  BY LenProperties DEF TypeInv, TypeOK, QueueTypeOK, TtsItem
<1>3. /\ MakeRoom(ttsQ) \in Seq(TtsItem)
      /\ \A i \in 1..Len(MakeRoom(ttsQ)) : MakeRoom(ttsQ)[i].seg.utt \notin abandoned
  <2>1. CASE Len(ttsQ) = QueueMax
    <3>1. ttsQ # <<>>
      BY <2>1, EmptySeq, QueueMaxAssumption
    <3>2. /\ Tail(ttsQ) \in Seq(TtsItem) /\ Len(Tail(ttsQ)) = Len(ttsQ) - 1
          /\ \A i \in 1..Len(Tail(ttsQ)) : Tail(ttsQ)[i] = ttsQ[i + 1]
      BY <1>2, <3>1, HeadTailProperties
    <3>3. ASSUME NEW i \in 1..Len(Tail(ttsQ))
          PROVE  Tail(ttsQ)[i].seg.utt \notin abandoned
      <4>1. i + 1 \in DOMAIN ttsQ
        BY <1>2, <3>2
      <4> QED
        BY <3>2, <4>1 DEF SilenceInv, QuietPipe
    <3> QED
      BY <2>1, <3>2, <3>3 DEF MakeRoom
  <2>2. CASE Len(ttsQ) # QueueMax
    BY <1>2, <2>2 DEF MakeRoom, SilenceInv, QuietPipe
  <2> QED
    BY <2>1, <2>2
<1>4. ASSUME NEW i \in DOMAIN ttsQ' PROVE ttsQ'[i].seg.utt \notin abandoned
  <2> DEFINE q == MakeRoom(ttsQ)
  <2>1. q \in Seq(TtsItem) /\ Len(q) \in Nat
    BY <1>3, LenProperties
  <2> HIDE DEF q
  <2>2. /\ Append(q, NoChunk) \in Seq(TtsItem) /\ Len(Append(q, NoChunk)) = Len(q) + 1
        /\ \A j \in 1..Len(q) : Append(q, NoChunk)[j] = q[j]
        /\ Append(q, NoChunk)[Len(q) + 1] = NoChunk
    BY <1>2, <2>1, AppendProperties
  <2>3. ttsQ' = Append(q, NoChunk) /\ i \in 1..(Len(q) + 1)
    BY <1>1, <2>2, LenProperties DEF q
  <2>4. CASE i \in 1..Len(q)
    BY <1>3, <2>2, <2>3, <2>4 DEF q
  <2>5. CASE i = Len(q) + 1
    BY <2>2, <2>3, <2>5, NoChunkIsNotAbandoned
  <2> QED
    BY <2>1, <2>3, <2>4, <2>5
<1> QED
  BY <1>1, <1>4, TtsQueueSilence DEF SupEnding, WorkUnfinished

(* The work task adds a chunk of the segment in hand. *)
LEMMA SendChunkSilence ==
  ASSUME TypeInv, SilenceInv, WorkUnfinished, SendChunk,
         WorkUnfinished' => WorkUnfinished, UNCHANGED beyondWork
  PROVE  SilenceInv'
<1>1. /\ UNCHANGED <<gens, stops, abandoned, cur, supPc>>
      /\ UNCHANGED <<invalidated, outstanding, calls>>
  BY DEF beyondWork, supVars, rollVars, ledgerVars
<1>2. supPc = "work"
  BY DEF WorkUnfinished, TypeInv, WorkInHand
<1>3. ASSUME NEW i \in DOMAIN ttsQ'
      PROVE  ttsQ'[i].seg.utt \notin abandoned /\ ttsQ'[i] # NoChunk
  <2> DEFINE c == [seg |-> cur, k |-> nextChunk]
  <2>1. ttsQ \in Seq(TtsItem) /\ Len(ttsQ) \in Nat /\ DOMAIN ttsQ = 1..Len(ttsQ)
    BY LenProperties DEF TypeInv, TypeOK, QueueTypeOK, TtsItem
  <2>2. c \in TtsItem /\ c # NoChunk /\ c.seg.utt \notin abandoned
    <3>1. cur \in Segment /\ cur # NoSegment /\ nextChunk \in Nat
      BY <1>2 DEF TypeInv, TypeOK, SupTypeOK, WorkInHand
    <3>2. cur.utt \notin abandoned
      BY DEF SilenceInv, QuietPipe
    <3> QED
      BY <3>1, <3>2 DEF TtsItem, Chunk, NoChunk
  <2> HIDE DEF c
  <2>3. /\ Append(ttsQ, c) \in Seq(TtsItem) /\ Len(Append(ttsQ, c)) = Len(ttsQ) + 1
        /\ \A j \in 1..Len(ttsQ) : Append(ttsQ, c)[j] = ttsQ[j]
        /\ Append(ttsQ, c)[Len(ttsQ) + 1] = c
    BY <2>1, <2>2, AppendProperties
  <2>4. ttsQ' = Append(ttsQ, c) /\ i \in 1..(Len(ttsQ) + 1)
    BY <2>3, LenProperties DEF SendChunk, c
  <2>5. CASE i \in 1..Len(ttsQ)
    BY <1>2, <2>1, <2>3, <2>4, <2>5
    DEF SilenceInv, QuietPipe, NoEarlySentinel, SupEnding
  <2>6. CASE i = Len(ttsQ) + 1
    BY <2>2, <2>3, <2>4, <2>6
  <2> QED
    BY <2>1, <2>4, <2>5, <2>6
<1> QED
  BY <1>1, <1>2, <1>3, TtsQueueSilence

LEMMA WorkSilence ==
  ASSUME TypeInv, SilenceInv, WorkStep \/ FailWork
  PROVE  SilenceInv'
<1>1. /\ UNCHANGED beyondWork /\ WorkUnfinished
      /\ SendChunk \/ UNCHANGED ttsQ
  BY DEF WorkStep, FailWork, YieldChunk, ResumePutChunk, EndWork, WorkUnfinished
<1>2. CASE SendChunk
  BY <1>1, <1>2, SendChunkSilence
<1>3. CASE UNCHANGED ttsQ
  <2>1. /\ UNCHANGED <<gens, stops, abandoned, cur, supPc>>
        /\ UNCHANGED <<invalidated, outstanding, calls>>
    BY <1>1 DEF beyondWork, supVars, rollVars, ledgerVars
  <2>2. cur.utt \notin abandoned
    BY <1>1 DEF SilenceInv, QuietPipe
  <2> QED
    BY <1>3, <2>1, <2>2, SilenceFrame
<1> QED
  BY <1>1, <1>2, <1>3

(* Taking a chunk from the queue. *)
LEMMA TailSilence ==
  ASSUME TypeInv, SilenceInv, ttsQ # <<>>
  PROVE  /\ supPc # "stopping"
         /\ \A i \in DOMAIN Tail(ttsQ) :
              /\ Tail(ttsQ)[i].seg.utt \notin abandoned
              /\ supPc \notin SupEnding => Tail(ttsQ)[i] # NoChunk
<1>1. ttsQ \in Seq(TtsItem) /\ Len(ttsQ) \in Nat /\ DOMAIN ttsQ = 1..Len(ttsQ)
  BY LenProperties DEF TypeInv, TypeOK, QueueTypeOK, TtsItem
<1>2. /\ Tail(ttsQ) \in Seq(TtsItem) /\ Len(Tail(ttsQ)) = Len(ttsQ) - 1
      /\ \A i \in 1..Len(Tail(ttsQ)) : Tail(ttsQ)[i] = ttsQ[i + 1]
  BY <1>1, HeadTailProperties
<1>3. DOMAIN Tail(ttsQ) = 1..Len(Tail(ttsQ))
  BY <1>2, LenProperties
<1>4. ASSUME NEW i \in DOMAIN Tail(ttsQ)
      PROVE  i + 1 \in DOMAIN ttsQ /\ Tail(ttsQ)[i] = ttsQ[i + 1]
  BY <1>1, <1>2, <1>3
<1> QED
  BY <1>4 DEF SilenceInv, StopsEverything, QuietPipe, NoEarlySentinel

(* A step of playback that takes a chunk, or none, and schedules nothing. *)
LEMMA TakeChunkSilence ==
  ASSUME TypeInv, SilenceInv, UNCHANGED beyondPlay, gens' = gens,
         UNCHANGED <<invalidated, outstanding>>, calls' \subseteq calls,
         UNCHANGED ttsQ \/ (ttsQ # <<>> /\ ttsQ' = Tail(ttsQ))
  PROVE  SilenceInv'
<1>1. UNCHANGED <<stops, abandoned, cur, supPc, work>>
  BY DEF beyondPlay, supVars, rollVars, workVars
<1>2. CASE UNCHANGED ttsQ
  <2>1. WorkUnfinished' => cur'.utt \notin abandoned
    BY <1>1 DEF SilenceInv, QuietPipe, WorkUnfinished
  <2> QED
    BY <1>1, <1>2, <2>1, SilenceFrame
<1>3. CASE ttsQ # <<>> /\ ttsQ' = Tail(ttsQ)
  <2>1. StopsEverything' /\ LiveGenerations'
    BY <1>1, <1>3, TailSilence DEF SilenceInv, StopsEverything, LiveGenerations
  <2>2. NoEarlySentinel'
    BY <1>1, <1>3, TailSilence DEF NoEarlySentinel, NoChunk, NoSegment, SupEnding
  <2>3. HandlesAreOwned'
    BY <1>1 DEF SilenceInv, HandlesAreOwned, Pair
  <2>4. QuietPipe'
    BY <1>1, <1>3, TailSilence DEF SilenceInv, QuietPipe, WorkUnfinished
  <2> QED
    BY <2>1, <2>2, <2>3, <2>4 DEF SilenceInv
<1> QED
  BY <1>2, <1>3

(* A chunk becomes a handle or a blocked call of the generation claimed. *)
LEMMA ScheduleOwned ==
  ASSUME HandlesAreOwned, gens \subseteq gens', NEW g, NEW u,
         [utt |-> u.seg.utt, gen |-> g] \in gens', Schedule(g, u)
  PROVE  HandlesAreOwned'
<1>1. /\ \A h \in outstanding' : h \in outstanding \/ (h.gen = g /\ h.unit = u)
      /\ \A c \in calls' : c \in calls \/ (c.gen = g /\ c.unit = u)
      /\ invalidated' = invalidated
  BY DEF Schedule, Admit
<1>2. /\ \A h \in outstanding' : Pair(h) \in gens'
      /\ \A c \in calls' : c.gen \in invalidated \/ Pair(c) \in gens'
  BY <1>1 DEF HandlesAreOwned, Pair
<1> QED
  BY <1>1, <1>2 DEF HandlesAreOwned, Pair

LEMMA PlayChunkSilence ==
  ASSUME TypeInv, SilenceInv, PlayChunk
  PROVE  SilenceInv'
<1> DEFINE c == Head(ttsQ)
           u == c.seg.utt
           g == GenerationOf(u)
<1>1. /\ ttsQ # <<>> /\ ttsQ' = Tail(ttsQ) /\ c # NoChunk /\ UNCHANGED beyondPlay
  BY DEF PlayChunk, HasChunk
<1>2. CASE u \in abandoned
  <2>1. UNCHANGED <<gens, invalidated, outstanding, calls>>
    BY <1>2 DEF PlayChunk, ledgerVars
  <2> QED
    BY <1>1, <2>1, TakeChunkSilence
<1>3. CASE u \notin abandoned
  <2>1. ClaimGeneration(u) /\ Schedule(g, c)
    BY <1>3 DEF PlayChunk
  <2>2. u \in Utterances /\ gens \subseteq Ownership /\ genSeq \in Nat
    <3>1. ttsQ \in Seq(TtsItem) /\ gens \subseteq Ownership /\ genSeq \in Nat
      BY DEF TypeInv, TypeOK, QueueTypeOK, SupTypeOK, SinkTypeOK, TtsItem, Ownership
    <3>2. c \in TtsItem
      BY <1>1, <3>1, HeadTailProperties
    <3> QED
      BY <1>1, <3>1, <3>2 DEF TtsItem, Chunk, Segment
  <2>3. gens' = gens \cup {[utt |-> u, gen |-> g]}
    BY <2>1, <2>2, ClaimGenerationProperties
  <2>4. UNCHANGED <<stops, abandoned, cur, supPc, work>> /\ supPc # "stopping"
    BY <1>1, TailSilence DEF beyondPlay, supVars, rollVars, workVars
  <2> HIDE DEF g
  <2>5. StopsEverything' /\ LiveGenerations'
    BY <1>3, <2>3, <2>4 DEF SilenceInv, StopsEverything, LiveGenerations
  <2>6. NoEarlySentinel'
    BY <1>1, <2>4, TailSilence DEF NoEarlySentinel, NoChunk, NoSegment, SupEnding
  <2>7. HandlesAreOwned'
    BY <2>1, <2>3, ScheduleOwned DEF SilenceInv
  <2>8. QuietPipe'
    BY <1>1, <2>4, TailSilence DEF SilenceInv, QuietPipe, WorkUnfinished
  <2> QED
    BY <2>5, <2>6, <2>7, <2>8 DEF SilenceInv
<1> QED
  BY <1>2, <1>3

(* A blocked call returns: its chunk is rejected or owned as the call was. *)
LEMMA ResumeScheduleSilence ==
  ASSUME SilenceInv, ResumeSchedule
  PROVE  SilenceInv'
<1>1. PICK c \in calls : Resume(c)
  BY DEF ResumeSchedule
<1>2. /\ UNCHANGED <<ttsQ, gens, stops, abandoned, cur, supPc, work>>
      /\ UNCHANGED invalidated /\ calls' = calls \ {c}
  BY <1>1 DEF ResumeSchedule, Resume, beyondPlay, supVars, rollVars, workVars
<1>3. /\ \A h \in outstanding' : h \in outstanding \/ (h.gen = c.gen /\ h.unit = c.unit)
      /\ c.gen \in invalidated => outstanding' = outstanding
  BY <1>1 DEF Resume, Admit
<1>4. HandlesAreOwned'
  <2>1. \A h \in outstanding' : Pair(h) \in gens
    BY <1>3 DEF SilenceInv, HandlesAreOwned, Pair
  <2>2. \A x \in calls' : x.gen \in invalidated \/ Pair(x) \in gens
    BY <1>2 DEF SilenceInv, HandlesAreOwned
  <2> QED
    BY <1>2, <2>1, <2>2 DEF HandlesAreOwned, Pair
<1>5. StopsEverything' /\ LiveGenerations' /\ QuietPipe'
  BY <1>2 DEF SilenceInv, StopsEverything, LiveGenerations, QuietPipe, WorkUnfinished
<1>6. NoEarlySentinel'
  BY <1>2 DEF SilenceInv, NoEarlySentinel, NoChunk, NoSegment, SupEnding
<1> QED
  BY <1>4, <1>5, <1>6 DEF SilenceInv

LEMMA PlaybackSilence ==
  ASSUME TypeInv, SilenceInv, PlaybackStep \/ FailPlayback
  PROVE  SilenceInv'
<1>1. CASE PlaybackEof \/ FinishDrain
  <2>1. /\ UNCHANGED beyondPlay /\ UNCHANGED <<gens, invalidated, outstanding, calls>>
        /\ UNCHANGED ttsQ \/ (ttsQ # <<>> /\ ttsQ' = Tail(ttsQ))
    BY <1>1 DEF PlaybackEof, FinishDrain, HasChunk, ledgerVars
  <2> QED
    BY <2>1, TakeChunkSilence
<1>2. CASE FailPlayback
  <2>1. UNCHANGED ttsQ \/ (ttsQ # <<>> /\ ttsQ' = Tail(ttsQ))
    BY <1>2 DEF FailPlayback, HasChunk
  <2>2. UNCHANGED beyondPlay /\ UNCHANGED <<gens, invalidated, outstanding>> /\ calls' = {}
    BY <1>2 DEF FailPlayback
  <2> QED
    BY <2>1, <2>2, TakeChunkSilence
<1> QED
  BY <1>1, <1>2, PlayChunkSilence, ResumeScheduleSilence DEF PlaybackStep

---------------------------------------------------------------------------
(* The other tasks.                                                        *)

LEMMA SttSilence ==
  ASSUME SilenceInv, SttStep \/ BargeStep \/ UNCHANGED vars
  PROVE  SilenceInv'
<1>1. /\ UNCHANGED <<ttsQ, gens, stops, abandoned, cur, supPc, work>>
      /\ UNCHANGED <<invalidated, outstanding, calls>>
  BY DEF SttStep, BargeStep, DropHypothesis, KeepHypothesis, ResumePut, StreamEnds,
     ResumePutSentinel, Onset, BargeStreamEnds, beyondStt, beyondBarge, vars, supVars,
     rollVars, workVars, ledgerVars
<1>2. WorkUnfinished' => cur'.utt \notin abandoned
  BY <1>1 DEF SilenceInv, QuietPipe, WorkUnfinished
<1> QED
  BY <1>1, <1>2, SilenceFrame

LEMMA SinkSilence ==
  ASSUME TypeInv, SilenceInv, SinkStep
  PROVE  SilenceInv'
<1>1. /\ UNCHANGED <<ttsQ, gens, stops, abandoned, cur, supPc, work>>
      /\ UNCHANGED <<invalidated, calls>>
  BY DEF SinkStep, Sound, Quiet, StartSounding, FinishSounding, beyondSink, supVars,
     rollVars, workVars
<1>2. \A h \in outstanding' : \E x \in outstanding : Pair(h) = Pair(x)
  <2>1. ASSUME NEW h \in outstanding
        PROVE  Pair([h EXCEPT !.sounding = TRUE]) = Pair(h)
    BY DEF TypeInv, TypeOK, SinkTypeOK, Handle, Pair
  <2> QED
    BY <2>1 DEF SinkStep, Sound, Quiet, StartSounding, FinishSounding
<1>3. WorkUnfinished' => cur'.utt \notin abandoned
  BY <1>1 DEF SilenceInv, QuietPipe, WorkUnfinished
<1> QED
  BY <1>1, <1>2, <1>3, SilenceFrame

(* Supervisor steps that handle no barge-in. *)
LEMMA MoveOnSilence ==
  ASSUME TypeInv, SilenceInv,
         \/ TakeSegment \/ WaitForSegment \/ CancelGet \/ IgnoreOnset \/ DropSegment
         \/ StartWork \/ FinishSegment \/ CancelWork \/ SupervisorEnds
         \/ SupervisorFails \/ CancelSession
  PROVE  SilenceInv'
<1>1. /\ UNCHANGED <<ttsQ, gens, stops, abandoned>>
      /\ UNCHANGED <<invalidated, outstanding>> /\ calls' \subseteq calls
  BY DEF TakeSegment, WaitForSegment, CancelGet, IgnoreOnset, DropSegment, StartWork,
     FinishSegment, CancelWork, SupervisorEnds, SupervisorFails, CancelSession,
     SupervisorRaises, noBargeIn, rollVars, ledgerVars
<1>2. /\ supPc' = "stopping" <=> supPc = "stopping"
      /\ supPc \in SupEnding => supPc' \in SupEnding
  BY DEF TakeSegment, WaitForSegment, CancelGet, IgnoreOnset, DropSegment, StartWork,
     FinishSegment, CancelWork, SupervisorEnds, SupervisorFails, CancelSession,
     SupervisorRaises, SupEnding
<1>3. WorkUnfinished' => cur'.utt \notin abandoned
  <2>1. CASE StartWork
    BY <2>1 DEF StartWork
  <2>2. CASE TakeSegment
    BY <2>2 DEF TakeSegment, workVars, TypeInv, WorkInHand, WorkUnfinished
  <2>3. CASE ~StartWork /\ ~TakeSegment
    <3>1. cur' = cur /\ (work' = work \/ work' = "none")
      BY <2>3 DEF WaitForSegment, CancelGet, IgnoreOnset, DropSegment, FinishSegment,
         CancelWork, SupervisorEnds, SupervisorFails, CancelSession, SupervisorRaises,
         workVars
    <3> QED
      BY <3>1 DEF SilenceInv, QuietPipe, WorkUnfinished
  <2> QED
    BY <2>1, <2>2, <2>3
<1> QED
  BY <1>1, <1>2, <1>3, SilenceFrame

LEMMA HandleBargeInSilence ==
  ASSUME TypeInv, SilenceInv, BargeInWhileIdle \/ BargeInOnWork
  PROVE  SilenceInv'
<1>1. PICK u \in Nat :
        /\ BargeIn(u) /\ supPc \in {"waking", "cancelling"}
        /\ UNCHANGED <<invalidated, outstanding, calls, work>>
  <2>1. lastUtt \in Nat /\ cur.utt \in Nat
    BY DEF TypeInv, TypeOK, SupTypeOK, Segment, NoSegment, Utterances
  <2> QED
    BY <2>1 DEF BargeInWhileIdle, BargeInOnWork, workVars
<1> QED
  BY <1>1, BargeInSilence

LEMMA SilenceInit == Init => SilenceInv
<1> SUFFICES ASSUME Init PROVE SilenceInv
  OBVIOUS
<1>1. /\ supPc = "next" /\ ttsQ = <<>> /\ gens = {} /\ abandoned = {} /\ work = "none"
      /\ outstanding = {} /\ calls = {}
  BY DEF Init, LedgerInit
<1> QED
  BY <1>1 DEF SilenceInv, StopsEverything, NoEarlySentinel, LiveGenerations,
     HandlesAreOwned, QuietPipe, WorkUnfinished

LEMMA SilenceNext == TypeInv /\ SilenceInv /\ [Next]_vars => SilenceInv'
<1> SUFFICES ASSUME TypeInv, SilenceInv, [Next]_vars PROVE SilenceInv'
  OBVIOUS
<1>1. CASE SupervisorStep
  BY <1>1, MoveOnSilence, CloseTtsQueueSilence, HandleBargeInSilence, StopSilence,
     EndBargeInSilence
  DEF SupervisorStep
<1>2. CASE SttStep \/ BargeStep \/ UNCHANGED vars
  BY <1>2, SttSilence
<1>3. CASE WorkStep \/ FailWork
  BY <1>3, WorkSilence
<1>4. CASE PlaybackStep \/ FailPlayback
  BY <1>4, PlaybackSilence
<1>5. CASE SinkStep
  BY <1>5, SinkSilence
<1>6. CASE CancelSession
  BY <1>6, MoveOnSilence
<1> QED
  BY <1>1, <1>2, <1>3, <1>4, <1>5, <1>6 DEF Next, FaultStep, Finish

LEMMA SilenceInvariant == Spec => [](TypeInv /\ SilenceInv)
<1>1. Init => TypeInv /\ SilenceInv
  BY TypesInit, SilenceInit
<1>2. (TypeInv /\ SilenceInv) /\ [Next]_vars => (TypeInv /\ SilenceInv)'
  BY TypesNext, SilenceNext
<1> QED
  BY <1>1, <1>2, PTL DEF Spec

(* After a barge-in nothing of an abandoned utterance is heard any more. *)
THEOREM SilenceAfterBargeIn == Spec => []SilentAfterBargeIn
<1>1. TypeInv /\ SilenceInv => SilentAfterBargeIn
  BY SilenceInvSuffices
<1> QED
  BY <1>1, SilenceInvariant, PTL

(* A barge-in leaves the sink and its queue empty. *)
THEOREM BargeInStopsAll == Spec => []BargeInEmptiesSink
<1>1. TypeInv /\ SilenceInv => BargeInEmptiesSink
  BY SilenceInvSuffices
<1> QED
  BY <1>1, SilenceInvariant, PTL

---------------------------------------------------------------------------
(* Leak freedom.                                                           *)

(* The playback task is the only caller of schedule(), and waits for it. *)
OneCaller ==
  /\ playPc # "blocked" => calls = {}
  /\ \A c, d \in calls : c = d

LeakInv == WorkInHand /\ OneCaller /\ NoTaskLeft

(* Steps that neither end the supervisor nor concern the playback task. *)
LEMMA LeakFrame ==
  ASSUME LeakInv, WorkInHand', UNCHANGED <<playPc, calls>>,
         supPc' \in {"done", "failed"} => supPc \in {"done", "failed"}
  PROVE  LeakInv'
BY DEF LeakInv, OneCaller, NoTaskLeft, WorkInHand

LEMMA PlaybackLeaks ==
  ASSUME LeakInv, PlaybackStep \/ FailPlayback
  PROVE  LeakInv'
<1>1. /\ UNCHANGED <<supPc, work, cur>> /\ supPc \notin {"done", "failed"}
      /\ playPc \in {"get", "blocked", "drain"}
  BY DEF PlaybackStep, PlaybackEof, PlayChunk, ResumeSchedule, FinishDrain, FailPlayback,
     HasChunk, beyondPlay, supVars, workVars, LeakInv, NoTaskLeft
<1>2. WorkInHand' /\ NoTaskLeft'
  BY <1>1 DEF LeakInv, WorkInHand, NoTaskLeft, NoSegment
<1>3. OneCaller'
  <2>1. CASE PlaybackEof \/ FinishDrain
    BY <2>1 DEF PlaybackEof, FinishDrain, HasChunk, ledgerVars, LeakInv, OneCaller
  <2>2. CASE FailPlayback
    BY <2>2 DEF FailPlayback, OneCaller
  <2>3. CASE ResumeSchedule
    BY <2>3 DEF ResumeSchedule, Resume, LeakInv, OneCaller
  <2>4. CASE PlayChunk
    <3>1. calls = {}
      BY <2>4 DEF PlayChunk, HasChunk, LeakInv, OneCaller
    <3>2. \/ calls' = {} /\ playPc' = "get"
          \/ playPc' = "blocked" /\ \E c : calls' = {c}
          \/ UNCHANGED <<calls, playPc>>
      BY <2>4, <3>1 DEF PlayChunk, Schedule, ledgerVars
    <3> QED
      BY <2>4, <3>1, <3>2 DEF OneCaller
  <2> QED
    BY <1>1, <2>1, <2>2, <2>3, <2>4 DEF PlaybackStep
<1> QED
  BY <1>2, <1>3 DEF LeakInv

LEMMA SupervisorLeaks ==
  ASSUME LeakInv, WorkInHand', SupervisorStep \/ CancelSession
  PROVE  LeakInv'
<1>1. CASE SupervisorEnds
  BY <1>1 DEF SupervisorEnds, noBargeIn, ledgerVars, beyondSup, workVars, LeakInv, WorkInHand,
     OneCaller, NoTaskLeft
<1>2. CASE SupervisorRaises
  BY <1>2 DEF SupervisorRaises, LeakInv, WorkInHand, OneCaller, NoTaskLeft
<1>3. CASE ~SupervisorEnds /\ ~SupervisorRaises
  <2>1. /\ UNCHANGED <<playPc, calls>>
        /\ supPc' \in {"done", "failed"} => supPc \in {"done", "failed"}
    BY <1>3
    DEF SupervisorStep, CancelSession, TakeSegment, WaitForSegment, CancelGet,
        BargeInWhileIdle, BargeIn, Rearm, IgnoreOnset, DropSegment, StartWork, CloseTtsQueue,
        FinishSegment, CancelWork, BargeInOnWork, StopGeneration, Stop, EndBargeIn,
        SupervisorFails, noBargeIn, ledgerVars, beyondSup
  <2> QED
    BY <2>1, LeakFrame
<1> QED
  BY <1>1, <1>2, <1>3

LEMMA LeakNext == TypeInv /\ LeakInv /\ [Next]_vars => LeakInv'
<1> SUFFICES ASSUME TypeInv, LeakInv, [Next]_vars PROVE LeakInv'
  OBVIOUS
<1>1. WorkInHand'
  BY TypesNext DEF TypeInv
<1>2. CASE PlaybackStep \/ FailPlayback
  BY <1>2, PlaybackLeaks
<1>3. CASE SupervisorStep \/ CancelSession
  BY <1>1, <1>3, SupervisorLeaks
<1>4. CASE \/ SttStep \/ WorkStep \/ FailWork \/ SinkStep \/ BargeStep \/ UNCHANGED vars
  <2>1. UNCHANGED <<playPc, calls, supPc>>
    <3>1. CASE SttStep \/ BargeStep \/ UNCHANGED vars
      BY <3>1 DEF SttStep, BargeStep, DropHypothesis, KeepHypothesis, ResumePut, StreamEnds,
         ResumePutSentinel, Onset, BargeStreamEnds, beyondStt, beyondBarge, vars, supVars,
         ledgerVars
    <3>2. CASE WorkStep \/ FailWork
      BY <3>2 DEF WorkStep, FailWork, YieldChunk, ResumePutChunk, EndWork, beyondWork,
         supVars, ledgerVars
    <3>3. CASE SinkStep
      BY <3>3 DEF SinkStep, Sound, Quiet, StartSounding, FinishSounding, beyondSink, supVars
    <3> QED
      BY <1>4, <3>1, <3>2, <3>3
  <2> QED
    BY <1>1, <2>1, LeakFrame
<1> QED
  BY <1>2, <1>3, <1>4 DEF Next, FaultStep, Finish

(* When the supervisor is gone, so is every task it started. *)
THEOREM NothingLeaks == Spec => []NoTaskLeft
<1>1. Init => TypeInv /\ LeakInv
  <2>1. Init => LeakInv
    BY DEF Init, LedgerInit, LeakInv, WorkInHand, OneCaller, NoTaskLeft
  <2> QED
    BY <2>1, TypesInit
<1>2. (TypeInv /\ LeakInv) /\ [Next]_vars => (TypeInv /\ LeakInv)'
  BY TypesNext, LeakNext
<1>3. TypeInv /\ LeakInv => NoTaskLeft
  BY DEF LeakInv
<1> QED
  BY <1>1, <1>2, <1>3, PTL DEF Spec

(* Bounded queues and no task left behind, whatever fails. *)
THEOREM PipelineStaysSound == Spec => []PipelineIsSound
<1>1. TypeOK /\ NoTaskLeft => PipelineIsSound
  BY DEF PipelineIsSound
<1> QED
  BY <1>1, PipelineTypeOK, NothingLeaks, PTL

---------------------------------------------------------------------------
(* The stamps of new speech.                                               *)
Past(n) == {s \in SegItem : s.utt <= n}

StampedInPast ==
  /\ segQ \in Seq(Past(utt)) /\ puts \in Seq(Past(utt))
  /\ cur.utt <= utt /\ lastUtt <= utt
  /\ \A u \in abandoned : u <= utt

OwnershipInv == StampedInPast /\ NewSpeechIsOwned

LEMMA SegItemUtterance ==
  /\ \A s \in SegItem : s.utt \in Nat
  /\ NoSegment.utt = 0 /\ NoSegment \in SegItem
BY DEF SegItem, Segment, NoSegment, Utterances

LEMMA PastGrows ==
  ASSUME NEW n \in Nat, NEW m \in Nat, n <= m
  PROVE  /\ Seq(Past(n)) \subseteq Seq(Past(m))
         /\ \A k \in Nat : k <= n => k <= m
<1>1. Past(n) \subseteq Past(m)
  BY SegItemUtterance DEF Past
<1>2. \A s \in Seq(Past(n)) : s \in Seq(Past(m))
  BY <1>1, SeqMonotonic
<1> QED
  BY <1>2

(* What is put, and what did not fit, keeps its stamp; an utterance ends   *)
(* only by moving on.                                                      *)
LEMMA PutSegmentsInPast ==
  ASSUME NEW u \in Utterances, segQ \in Seq(Past(u)), NEW segs \in Seq(Past(u)),
         Len(segQ) <= QueueMax, NEW final \in BOOLEAN, NEW m, NEW c,
         PutSegments(segs, final, u, m, c)
  PROVE  /\ segQ' \in Seq(Past(u)) /\ puts' \in Seq(Past(u))
         /\ utt' = u \/ utt' = u + 1
<1>1. Len(segs) \in Nat /\ Len(segQ) \in Nat /\ QueueMax \in Nat
  BY LenProperties, QueueMaxAssumption
<1>2. Room \in Nat
  BY <1>1 DEF Room
<1>3. CASE Len(segs) <= Room
  <2>1. /\ segQ' = segQ \o segs /\ puts' = <<>>
        /\ utt' = IF final THEN u + 1 ELSE u
    BY <1>3 DEF PutSegments
  <2>2. segQ' \in Seq(Past(u)) /\ puts' \in Seq(Past(u))
    BY <2>1, ConcatProperties
  <2> QED
    BY <2>1, <2>2
<1>4. CASE ~(Len(segs) <= Room)
  <2>1. /\ segQ' = segQ \o SubSeq(segs, 1, Room)
        /\ puts' = SubSeq(segs, Room + 1, Len(segs)) /\ utt' = u
    BY <1>4 DEF PutSegments
  <2>2. \A i \in 1..Len(segs) : segs[i] \in Past(u)
    BY ElementOfSeq
  <2>3. SubSeq(segs, 1, Room) \in Seq(Past(u))
    <3>1. \A i \in 1..Room : segs[i] \in Past(u)
      BY <1>1, <1>2, <1>4, <2>2
    <3> QED
      BY <1>1, <1>2, <3>1, SubSeqProperties
  <2>4. puts' \in Seq(Past(u))
    <3>1. \A i \in (Room + 1)..Len(segs) : segs[i] \in Past(u)
      BY <1>1, <1>2, <2>2
    <3> QED
      BY <1>1, <1>2, <2>1, <3>1, SubSeqProperties
  <2> QED
    BY <2>1, <2>3, <2>4, ConcatProperties
<1> QED
  BY <1>3, <1>4

---------------------------------------------------------------------------
(* The STT stage.                                                          *)

(***************************************************************************)
(* A step that leaves the supervisor alone, applies the rolls that are     *)
(* owed if it applies any, and stamps with the utterance it finds.         *)
(***************************************************************************)
LEMMA StampedOnward ==
  ASSUME TypeInv, StampedInPast, NEW v \in Nat, utt <= v,
         segQ' \in Seq(Past(v)), puts' \in Seq(Past(v)), utt' = v,
         UNCHANGED <<cur, lastUtt, abandoned>>
  PROVE  StampedInPast'
<1>1. utt \in Nat /\ cur.utt \in Nat /\ lastUtt \in Nat /\ abandoned \subseteq Nat
  BY SegItemUtterance DEF TypeInv, TypeOK, SttTypeOK, SupTypeOK, SegItem, Utterances
<1>2. cur'.utt <= utt' /\ lastUtt' <= utt'
  BY <1>1, PastGrows DEF StampedInPast
<1>3. \A u \in abandoned' : u <= utt'
  BY <1>1, PastGrows DEF StampedInPast
<1> QED
  BY <1>2, <1>3 DEF StampedInPast, Past, SegItem, Segment, NoSegment, Utterances

(* The rolls that are owed leave every abandoned utterance behind. *)
LEMMA RolledIsOwned ==
  ASSUME TypeInv, OwnershipInv
  PROVE  /\ RolledUtt \in Utterances /\ utt <= RolledUtt
         /\ supPc # "stopping" => RolledUtt \notin abandoned
         /\ RolledUtt + 1 \notin abandoned
<1>1. /\ utt \in Nat /\ rollRequests \in Nat /\ rollDone \in Nat /\ rollDone <= rollRequests
      /\ abandoned \subseteq Nat /\ \A u \in abandoned : u <= utt
  BY DEF TypeInv, TypeOK, SttTypeOK, SupTypeOK, Utterances, OwnershipInv, StampedInPast
<1>2. RolledUtt \in Utterances /\ utt <= RolledUtt
  BY <1>1, RolledTypes DEF RolledUtt
<1>3. RolledUtt + 1 \notin abandoned
  BY <1>1, <1>2 DEF Utterances
<1>4. CASE RollsPending
  <2>1. utt < RolledUtt
    BY <1>1, <1>4 DEF RollsPending, RolledUtt
  <2>2. RolledUtt \notin abandoned
    BY <1>1, <1>2, <2>1 DEF Utterances
  <2> QED
    BY <1>2, <1>3, <2>2
<1>5. CASE ~RollsPending
  <2>1. RolledUtt = utt
    BY <1>1, <1>5 DEF RollsPending, RolledUtt
  <2>2. supPc # "stopping" => utt \notin abandoned
    BY <1>5 DEF OwnershipInv, NewSpeechIsOwned
  <2> QED
    BY <1>2, <1>3, <2>1, <2>2
<1> QED
  BY <1>4, <1>5

LEMMA DropHypothesisOwnership ==
  ASSUME TypeInv, OwnershipInv, NEW final \in BOOLEAN, DropHypothesis(final)
  PROVE  OwnershipInv'
<1>1. /\ utt' = RolledUtt /\ UNCHANGED <<segQ, puts, cur, lastUtt, abandoned, supPc>>
  BY DEF DropHypothesis, HypothesisArrives, beyondStt, supVars, rollVars
<1>2. RolledUtt \in Nat /\ utt \in Nat /\ utt <= RolledUtt
  BY RolledIsOwned DEF Utterances, TypeInv, TypeOK, SttTypeOK
<1>3. segQ' \in Seq(Past(RolledUtt)) /\ puts' \in Seq(Past(RolledUtt))
  BY <1>1, <1>2, PastGrows DEF OwnershipInv, StampedInPast
<1>4. StampedInPast'
  BY <1>1, <1>2, <1>3, StampedOnward DEF OwnershipInv
<1>5. NewSpeechIsOwned'
  BY <1>1, RolledIsOwned DEF NewSpeechIsOwned
<1> QED
  BY <1>4, <1>5 DEF OwnershipInv

LEMMA KeepHypothesisOwnership ==
  ASSUME TypeInv, OwnershipInv, NEW final \in BOOLEAN, KeepHypothesis(final)
  PROVE  OwnershipInv'
<1>1. PICK m \in 0..MaxTokens :
        \E segs \in Tilings(RolledUtt, turn, RolledClosed, m) :
          PutSegments(segs, final, RolledUtt, m, EndOf(segs, RolledClosed))
  BY DEF KeepHypothesis
<1>2. PICK segs \in Tilings(RolledUtt, turn, RolledClosed, m) :
        PutSegments(segs, final, RolledUtt, m, EndOf(segs, RolledClosed))
  BY <1>1
<1>3. UNCHANGED <<cur, lastUtt, abandoned, supPc>>
  BY DEF KeepHypothesis, beyondStt, supVars, rollVars
<1>4. RolledUtt \in Utterances /\ RolledUtt \in Nat /\ utt \in Nat /\ utt <= RolledUtt
  BY RolledIsOwned DEF Utterances, TypeInv, TypeOK, SttTypeOK
<1>5. segs \in Seq(Past(RolledUtt))
  <2>1. m \in Nat
    BY BoundsAssumption
  <2>2. segs \in Seq(Segment) /\ \A i \in DOMAIN segs : segs[i].utt = RolledUtt
    BY <1>4, <2>1, RolledTypes, TilingsProperties
  <2>3. Len(segs) \in Nat /\ DOMAIN segs = 1..Len(segs)
    BY <2>2, LenProperties
  <2>4. \A i \in 1..Len(segs) : segs[i] \in Past(RolledUtt)
    BY <1>4, <2>2, <2>3, ElementOfSeq DEF Past, SegItem
  <2> QED
    BY <2>2, <2>3, <2>4, IsASeq
<1>6. segQ \in Seq(Past(RolledUtt)) /\ Len(segQ) <= QueueMax
  BY <1>4, PastGrows DEF OwnershipInv, StampedInPast, TypeInv, TypeOK, QueueTypeOK
<1>7. /\ segQ' \in Seq(Past(RolledUtt)) /\ puts' \in Seq(Past(RolledUtt))
      /\ utt' = RolledUtt \/ utt' = RolledUtt + 1
  BY <1>2, <1>4, <1>5, <1>6, PutSegmentsInPast
<1>8. utt' \in Nat /\ RolledUtt <= utt' /\ utt <= utt'
  BY <1>4, <1>7
<1>9. StampedInPast'
  <2>1. segQ' \in Seq(Past(utt')) /\ puts' \in Seq(Past(utt'))
    BY <1>4, <1>7, <1>8, PastGrows
  <2> QED
    BY <1>3, <1>8, <2>1, StampedOnward DEF OwnershipInv
<1>10. NewSpeechIsOwned'
  BY <1>3, <1>7, RolledIsOwned DEF NewSpeechIsOwned
<1> QED
  BY <1>9, <1>10 DEF OwnershipInv

LEMMA ResumePutOwnership ==
  ASSUME TypeInv, OwnershipInv, ResumePut
  PROVE  OwnershipInv'
<1>1. /\ PutSegments(puts, ending, utt, committed, closed)
      /\ UNCHANGED <<cur, lastUtt, abandoned, supPc, rollDone, rollRequests>>
  BY DEF ResumePut, beyondStt, supVars, rollVars
<1>2. utt \in Utterances /\ utt \in Nat /\ ending \in BOOLEAN /\ Len(segQ) <= QueueMax
      /\ abandoned \subseteq Nat
  BY DEF TypeInv, TypeOK, SttTypeOK, SupTypeOK, QueueTypeOK, Utterances
<1>3. /\ segQ' \in Seq(Past(utt)) /\ puts' \in Seq(Past(utt))
      /\ utt' = utt \/ utt' = utt + 1
  BY <1>1, <1>2, PutSegmentsInPast DEF OwnershipInv, StampedInPast
<1>4. utt' \in Nat /\ utt <= utt'
  BY <1>2, <1>3
<1>5. StampedInPast'
  <2>1. segQ' \in Seq(Past(utt')) /\ puts' \in Seq(Past(utt'))
    BY <1>2, <1>3, <1>4, PastGrows
  <2> QED
    BY <1>1, <1>4, <2>1, StampedOnward DEF OwnershipInv
<1>6. utt + 1 \notin abandoned
  BY <1>2 DEF OwnershipInv, StampedInPast
<1>7. NewSpeechIsOwned'
  BY <1>1, <1>3, <1>6 DEF OwnershipInv, NewSpeechIsOwned, RollsPending
<1> QED
  BY <1>5, <1>7 DEF OwnershipInv

---------------------------------------------------------------------------
(* The sentinel of a stream that ends, or of a stage that is cancelled.    *)

LEMMA SentinelInPast ==
  ASSUME NEW n \in Nat, segQ \in Seq(Past(n)), PutSentinel \/ UNCHANGED segQ
  PROVE  segQ' \in Seq(Past(n))
<1>1. NoSegment \in Past(n)
  BY SegItemUtterance DEF Past
<1>2. segQ' = Append(segQ, NoSegment) \/ segQ' = segQ
  BY DEF PutSentinel
<1> QED
  BY <1>1, <1>2, AppendProperties

(* Steps that stamp nothing, abandon nothing, and complete no barge-in. *)
LEMMA OwnershipFrame ==
  ASSUME TypeInv, OwnershipInv, UNCHANGED <<utt, rollDone, rollRequests, abandoned>>,
         segQ' \in Seq(Past(utt)), puts' \in Seq(Past(utt)),
         cur'.utt <= utt, lastUtt' <= utt,
         supPc = "stopping" => supPc' = "stopping"
  PROVE  OwnershipInv'
<1>1. NewSpeechIsOwned'
  BY DEF OwnershipInv, NewSpeechIsOwned, RollsPending
<1>2. StampedInPast'
  BY DEF OwnershipInv, StampedInPast, Past, SegItem, Segment, NoSegment, Utterances
<1> QED
  BY <1>1, <1>2 DEF OwnershipInv

LEMMA StreamEndsOwnership ==
  ASSUME TypeInv, OwnershipInv, StreamEnds \/ ResumePutSentinel
  PROVE  OwnershipInv'
<1>1. /\ PutSentinel /\ UNCHANGED <<utt, rollDone, puts>>
      /\ UNCHANGED <<cur, lastUtt, abandoned, rollRequests, supPc>>
  BY DEF StreamEnds, ResumePutSentinel, beyondStt, supVars, rollVars
<1>2. utt \in Nat
  BY DEF TypeInv, TypeOK, SttTypeOK, Utterances
<1>3. segQ' \in Seq(Past(utt))
  BY <1>1, <1>2, SentinelInPast DEF OwnershipInv, StampedInPast
<1> QED
  BY <1>1, <1>3, OwnershipFrame DEF OwnershipInv, StampedInPast

LEMMA FailureOwnership ==
  ASSUME TypeInv, OwnershipInv, SupervisorFails \/ CancelSession
  PROVE  OwnershipInv'
<1>1. /\ AbortGroup /\ UNCHANGED <<cur, lastUtt, abandoned, rollRequests>>
      /\ supPc = "stopping" => supPc' = "stopping"
  BY DEF SupervisorFails, CancelSession, rollVars
<1>2. utt \in Nat
  BY DEF TypeInv, TypeOK, SttTypeOK, Utterances
<1>3. /\ UNCHANGED <<utt, rollDone>>
      /\ puts' = puts \/ puts' = <<>>
      /\ PutSentinel \/ UNCHANGED segQ
  BY <1>1 DEF AbortGroup, AbortSttStage, sttVars
<1>4. segQ' \in Seq(Past(utt))
  BY <1>2, <1>3, SentinelInPast DEF OwnershipInv, StampedInPast
<1>5. puts' \in Seq(Past(utt))
  <2>1. <<>> \in Seq(Past(utt)) /\ puts \in Seq(Past(utt))
    BY DEF OwnershipInv, StampedInPast
  <2> QED
    BY <1>3, <2>1
<1> QED
  BY <1>1, <1>3, <1>4, <1>5, OwnershipFrame DEF OwnershipInv, StampedInPast

---------------------------------------------------------------------------
(* The supervisor.                                                         *)

LEMMA TakeSegmentOwnership ==
  ASSUME TypeInv, OwnershipInv, TakeSegment
  PROVE  OwnershipInv'
<1>1. /\ segQ # <<>> /\ cur' = Head(segQ) /\ segQ' = Tail(segQ)
      /\ UNCHANGED <<utt, rollDone, puts, lastUtt, abandoned, rollRequests>>
      /\ supPc # "stopping"
  BY DEF TakeSegment, noBargeIn, rollVars, beyondSup, sttVars
<1>2. segQ \in Seq(Past(utt))
  BY DEF OwnershipInv, StampedInPast
<1>3. cur' \in Past(utt) /\ segQ' \in Seq(Past(utt))
  BY <1>1, <1>2, HeadTailProperties
<1>4. cur'.utt <= utt
  BY <1>3 DEF Past
<1> QED
  BY <1>1, <1>3, <1>4, OwnershipFrame DEF OwnershipInv, StampedInPast

(* Steps of any task that only look at segments. *)
LEMMA IdleOwnership ==
  ASSUME TypeInv, OwnershipInv,
         \/ WaitForSegment \/ CancelGet \/ IgnoreOnset \/ DropSegment \/ StartWork
         \/ CloseTtsQueue \/ FinishSegment \/ CancelWork \/ SupervisorEnds
         \/ \E p \in stops : StopGeneration(p)
         \/ WorkStep \/ FailWork \/ PlaybackStep \/ FailPlayback \/ SinkStep
         \/ BargeStep \/ UNCHANGED vars
  PROVE  OwnershipInv'
<1>1. /\ UNCHANGED <<utt, rollDone, puts, segQ, cur, abandoned, rollRequests>>
      /\ lastUtt' = lastUtt \/ lastUtt' = cur.utt
      /\ supPc = "stopping" => supPc' = "stopping"
  <2>1. CASE \/ WaitForSegment \/ CancelGet \/ IgnoreOnset \/ DropSegment \/ StartWork
             \/ CloseTtsQueue \/ FinishSegment \/ CancelWork \/ SupervisorEnds
             \/ \E p \in stops : StopGeneration(p)
    BY <2>1
    DEF WaitForSegment, CancelGet, IgnoreOnset, DropSegment, StartWork, CloseTtsQueue,
        FinishSegment, CancelWork, SupervisorEnds, StopGeneration, noBargeIn, rollVars,
        beyondSup, sttVars
  <2>2. CASE WorkStep \/ FailWork
    BY <2>2 DEF WorkStep, FailWork, YieldChunk, ResumePutChunk, EndWork, beyondWork,
       sttVars, supVars, rollVars
  <2>3. CASE PlaybackStep \/ FailPlayback
    BY <2>3 DEF PlaybackStep, FailPlayback, PlaybackEof, PlayChunk, ResumeSchedule,
       FinishDrain, beyondPlay, sttVars, supVars, rollVars
  <2>4. CASE SinkStep
    BY <2>4 DEF SinkStep, Sound, Quiet, beyondSink, sttVars, supVars, rollVars
  <2>5. CASE BargeStep \/ UNCHANGED vars
    BY <2>5 DEF BargeStep, Onset, BargeStreamEnds, beyondBarge, vars, sttVars, supVars,
       rollVars
  <2> QED
    BY <2>1, <2>2, <2>3, <2>4, <2>5
<1>2. lastUtt' <= utt
  BY <1>1 DEF OwnershipInv, StampedInPast
<1> QED
  BY <1>1, <1>2, OwnershipFrame DEF OwnershipInv, StampedInPast

(* A roll is owed when the barge-in ends. *)
LEMMA RearmOwes ==
  ASSUME TypeInv, Rearm, UNCHANGED rollDone
  PROVE  RollsPending'
<1>1. /\ rollDone \in Nat /\ rollRequests \in Nat /\ rollDone <= rollRequests
      /\ rollRequests' = rollRequests + 1 /\ rollDone' = rollDone
  BY DEF TypeInv, TypeOK, SttTypeOK, SupTypeOK, Rearm
<1>2. rollDone' < rollRequests'
  BY <1>1
<1> QED
  BY <1>2 DEF RollsPending

LEMMA EndBargeInOwnership ==
  ASSUME TypeInv, OwnershipInv, EndBargeIn
  PROVE  OwnershipInv'
<1>1. /\ Rearm /\ UNCHANGED <<utt, rollDone, puts, segQ, cur, lastUtt, abandoned>>
  BY DEF EndBargeIn, beyondSup, sttVars
<1>2. NewSpeechIsOwned'
  BY <1>1, RearmOwes DEF NewSpeechIsOwned
<1>3. StampedInPast'
  BY <1>1 DEF OwnershipInv, StampedInPast, Past, SegItem, Segment, NoSegment, Utterances
<1> QED
  BY <1>2, <1>3 DEF OwnershipInv

(* The abandoned utterance is no later than the current one. *)
LEMMA BargeInOwnership ==
  ASSUME TypeInv, OwnershipInv, BargeInWhileIdle \/ BargeInOnWork
  PROVE  OwnershipInv'
<1>1. PICK u \in {lastUtt, cur.utt} :
        BargeIn(u) /\ UNCHANGED <<utt, rollDone, puts, cur, lastUtt>>
  BY DEF BargeInWhileIdle, BargeInOnWork, beyondSup, sttVars
<1>2. utt \in Nat /\ u <= utt
  BY DEF TypeInv, TypeOK, SttTypeOK, Utterances, OwnershipInv, StampedInPast
<1>3. abandoned' \subseteq abandoned \cup {u}
  BY <1>1 DEF BargeIn
<1>4. \A v \in abandoned' : v <= utt
  BY <1>2, <1>3 DEF OwnershipInv, StampedInPast
<1>5. segQ' \in Seq(Past(utt))
  <2>1. NoSegment \in Past(utt)
    BY <1>2, SegItemUtterance DEF Past
  <2>2. segQ \in Seq(Past(utt)) /\ segQ' = Drain(segQ, NoSegment)
    BY <1>1 DEF BargeIn, OwnershipInv, StampedInPast
  <2> QED
    BY <2>1, <2>2, DrainProperties
<1>6. StampedInPast'
  BY <1>1, <1>4, <1>5
  DEF OwnershipInv, StampedInPast, Past, SegItem, Segment, NoSegment, Utterances
<1>7. NewSpeechIsOwned'
  <2>1. CASE gens' = {}
    BY <1>1, <2>1, RearmOwes DEF BargeIn, NewSpeechIsOwned
  <2>2. CASE gens' # {}
    BY <1>1, <2>2 DEF BargeIn, NewSpeechIsOwned
  <2> QED
    BY <2>1, <2>2
<1> QED
  BY <1>6, <1>7 DEF OwnershipInv

---------------------------------------------------------------------------

LEMMA OwnershipInit == Init => OwnershipInv
<1> SUFFICES ASSUME Init PROVE OwnershipInv
  OBVIOUS
<1>1. /\ utt = 1 /\ segQ = <<>> /\ puts = <<>> /\ cur = NoSegment /\ lastUtt = 0
      /\ abandoned = {}
  BY DEF Init
<1>2. segQ \in Seq(Past(utt)) /\ puts \in Seq(Past(utt))
  BY <1>1
<1>3. cur.utt <= utt /\ lastUtt <= utt
  BY <1>1, SegItemUtterance
<1> QED
  BY <1>1, <1>2, <1>3 DEF OwnershipInv, StampedInPast, NewSpeechIsOwned

LEMMA OwnershipNext == TypeInv /\ OwnershipInv /\ [Next]_vars => OwnershipInv'
<1> SUFFICES ASSUME TypeInv, OwnershipInv, [Next]_vars PROVE OwnershipInv'
  OBVIOUS
<1>1. CASE SttStep
  BY <1>1, DropHypothesisOwnership, KeepHypothesisOwnership, ResumePutOwnership,
     StreamEndsOwnership
  DEF SttStep
<1>2. CASE SupervisorStep
  BY <1>2, TakeSegmentOwnership, IdleOwnership, BargeInOwnership, EndBargeInOwnership,
     FailureOwnership
  DEF SupervisorStep
<1>3. CASE CancelSession
  BY <1>3, FailureOwnership
<1>4. CASE \/ WorkStep \/ FailWork \/ PlaybackStep \/ FailPlayback \/ SinkStep
           \/ BargeStep \/ UNCHANGED vars
  BY <1>4, IdleOwnership
<1> QED
  BY <1>1, <1>2, <1>3, <1>4 DEF Next, FaultStep, Finish

(***************************************************************************)
(* Once the roll a barge-in asked for has been applied, new speech is      *)
(* stamped with an utterance nobody has abandoned.                         *)
(***************************************************************************)
THEOREM NewSpeechOwned == Spec => []NewSpeechIsOwned
<1>1. Init => TypeInv /\ OwnershipInv
  BY TypesInit, OwnershipInit
<1>2. (TypeInv /\ OwnershipInv) /\ [Next]_vars => (TypeInv /\ OwnershipInv)'
  BY TypesNext, OwnershipNext
<1>3. TypeInv /\ OwnershipInv => NewSpeechIsOwned
  BY DEF OwnershipInv
<1> QED
  BY <1>1, <1>2, <1>3, PTL DEF Spec

---------------------------------------------------------------------------
(* The order of the source, for items of seg_queue. *)
SegmentOrder ==
  {p \in SegItem \X SegItem : p[1] = NoSegment \/ p[2] = NoSegment \/ After(p[1], p[2])}

Items(q) == {q[i] : i \in 1..Len(q)}

InOrder(q, R) == \A i, j \in 1..Len(q) : i < j => <<q[i], q[j]>> \in R

(* Nothing the STT stage may still cut begins before the end of s. *)
Behind(s) ==
  \/ s.turn < turn
  \/ /\ s.turn = turn
     /\ turn \in staleTurns \/ (curTurn = turn /\ s.hi <= closed)

SegmentsInv ==
  /\ turn # 0
  /\ InOrder(segQ, SegmentOrder) /\ InOrder(puts, SegmentOrder)
  /\ Items(segQ) \X Items(puts) \subseteq SegmentOrder
  /\ {translated, cur} \X (Items(segQ) \cup Items(puts)) \subseteq SegmentOrder
  /\ \A s \in {translated, cur} \cup Items(segQ) \cup Items(puts) :
       s # NoSegment => Behind(s) /\ s.lo < s.hi
  /\ supPc = "got" => <<translated, cur>> \in SegmentOrder
  /\ sttPc = "put" /\ ending => curTurn # turn

---------------------------------------------------------------------------
(* Queues whose items are in order. *)

LEMMA AppendOrder ==
  ASSUME NEW S, NEW q \in Seq(S), NEW e \in S, NEW R
  PROVE  /\ Items(Append(q, e)) = Items(q) \cup {e}
         /\ InOrder(q, R) /\ Items(q) \X {e} \subseteq R => InOrder(Append(q, e), R)
<1>1. PICK r : r = Append(q, e)
  OBVIOUS
<1>2. /\ r \in Seq(S) /\ Len(r) = Len(q) + 1 /\ Len(q) \in Nat
      /\ \A i \in 1..Len(q) : r[i] = q[i]
      /\ r[Len(q) + 1] = e
  BY <1>1, AppendProperties, LenProperties
<1>3. \A i \in 1..(Len(q) + 1) : i = Len(q) + 1 \/ i \in 1..Len(q)
  BY <1>2
<1>4. Items(r) = Items(q) \cup {e}
  BY <1>2, <1>3 DEF Items
<1>5. ASSUME InOrder(q, R), Items(q) \X {e} \subseteq R, NEW i \in 1..Len(r), NEW j \in 1..Len(r),
             i < j
      PROVE  <<r[i], r[j]>> \in R
  <2>1. i \in 1..Len(q) /\ r[i] = q[i] /\ q[i] \in Items(q)
    <3>1. i \in 1..Len(q)
      BY <1>2, <1>5
    <3> QED
      BY <1>2, <3>1 DEF Items
  <2>2. CASE j \in 1..Len(q)
    BY <1>2, <1>5, <2>1, <2>2 DEF InOrder
  <2>3. CASE j = Len(q) + 1
    BY <1>2, <1>5, <2>1, <2>3
  <2> QED
    BY <1>2, <1>3, <1>5, <2>2, <2>3
<1> QED
  BY <1>1, <1>4, <1>5 DEF InOrder

LEMMA TailOrder ==
  ASSUME NEW S, NEW q \in Seq(S), q # <<>>, NEW R
  PROVE  /\ Head(q) \in Items(q) /\ Items(Tail(q)) \subseteq Items(q)
         /\ InOrder(q, R) => InOrder(Tail(q), R) /\ {Head(q)} \X Items(Tail(q)) \subseteq R
<1>1. PICK t : t = Tail(q)
  OBVIOUS
<1>2. /\ t \in Seq(S) /\ Len(t) = Len(q) - 1 /\ Len(q) \in Nat /\ Len(q) # 0
      /\ \A i \in 1..Len(t) : t[i] = q[i + 1]
      /\ Head(q) = q[1]
  BY <1>1, HeadTailProperties, LenProperties, EmptySeq
<1>3. 1 \in 1..Len(q) /\ \A i \in 1..Len(t) : i + 1 \in 1..Len(q) /\ 1 < i + 1
  BY <1>2
<1>4. Head(q) \in Items(q) /\ Items(t) \subseteq Items(q)
  BY <1>2, <1>3 DEF Items
<1>5. ASSUME InOrder(q, R) PROVE InOrder(t, R)
  <2> SUFFICES ASSUME NEW i \in 1..Len(t), NEW j \in 1..Len(t), i < j
               PROVE  <<t[i], t[j]>> \in R
    BY DEF InOrder
  <2>1. i + 1 < j + 1
    OBVIOUS
  <2> QED
    BY <1>2, <1>3, <1>5, <2>1 DEF InOrder
<1>6. ASSUME InOrder(q, R) PROVE {Head(q)} \X Items(t) \subseteq R
  <2> SUFFICES ASSUME NEW i \in 1..Len(t) PROVE <<Head(q), t[i]>> \in R
    BY DEF Items
  <2> QED
    BY <1>2, <1>3, <1>6 DEF InOrder
<1> QED
  BY <1>1, <1>4, <1>5, <1>6

LEMMA ConcatOrder ==
  ASSUME NEW S, NEW q \in Seq(S), NEW r \in Seq(S), NEW R
  PROVE  /\ Items(q \o r) = Items(q) \cup Items(r)
         /\ InOrder(q, R) /\ InOrder(r, R) /\ Items(q) \X Items(r) \subseteq R
              => InOrder(q \o r, R)
<1>1. PICK w : w = q \o r
  OBVIOUS
<1>2. /\ w \in Seq(S) /\ Len(w) = Len(q) + Len(r) /\ Len(q) \in Nat /\ Len(r) \in Nat
      /\ \A i \in 1..Len(w) : w[i] = IF i <= Len(q) THEN q[i] ELSE r[i - Len(q)]
  BY <1>1, ConcatProperties, LenProperties
<1>3. \A i \in 1..Len(w) : i \in 1..Len(q) \/ (i > Len(q) /\ i - Len(q) \in 1..Len(r))
  BY <1>2
<1>4. /\ \A i \in 1..Len(q) : i \in 1..Len(w) /\ w[i] = q[i]
      /\ \A i \in 1..Len(r) : /\ i + Len(q) \in 1..Len(w)
                              /\ w[i + Len(q)] = r[i]
  <2>1. \A i \in 1..Len(q) : i \in 1..Len(w) /\ i <= Len(q)
    BY <1>2
  <2>2. \A i \in 1..Len(r) : /\ i + Len(q) \in 1..Len(w) /\ ~(i + Len(q) <= Len(q))
                             /\ (i + Len(q)) - Len(q) = i
    BY <1>2
  <2> QED
    BY <1>2, <2>1, <2>2
<1>5. \A i \in 1..Len(w) : i > Len(q) => w[i] = r[i - Len(q)]
  BY <1>2
<1>6. Items(w) = Items(q) \cup Items(r)
  <2>1. ASSUME NEW i \in 1..Len(w) PROVE w[i] \in Items(q) \cup Items(r)
    BY <1>3, <1>4, <1>5 DEF Items
  <2>2. ASSUME NEW i \in 1..Len(q) PROVE q[i] \in Items(w)
    BY <1>4 DEF Items
  <2>3. ASSUME NEW i \in 1..Len(r) PROVE r[i] \in Items(w)
    BY <1>4 DEF Items
  <2> QED
    BY <2>1, <2>2, <2>3 DEF Items
<1>7. ASSUME InOrder(q, R), InOrder(r, R), Items(q) \X Items(r) \subseteq R,
             NEW i \in 1..Len(w), NEW j \in 1..Len(w), i < j
      PROVE  <<w[i], w[j]>> \in R
  <2>1. CASE j \in 1..Len(q)
    <3>1. i \in 1..Len(q)
      BY <1>7, <2>1, <1>2
    <3> QED
      BY <1>4, <1>7, <2>1, <3>1 DEF InOrder
  <2>2. CASE i \in 1..Len(q) /\ j > Len(q)
    <3>1. w[i] \in Items(q) /\ w[j] \in Items(r)
      <4>1. w[i] = q[i] /\ w[j] = r[j - Len(q)] /\ j - Len(q) \in 1..Len(r)
        BY <1>2, <1>3, <1>4, <1>5, <2>2
      <4> QED
        BY <2>2, <4>1 DEF Items
    <3> QED
      BY <1>7, <3>1
  <2>3. CASE i > Len(q) /\ j > Len(q)
    <3>1. /\ i - Len(q) \in 1..Len(r) /\ j - Len(q) \in 1..Len(r) /\ i - Len(q) < j - Len(q)
          /\ w[i] = r[i - Len(q)] /\ w[j] = r[j - Len(q)]
      BY <1>2, <1>3, <1>5, <1>7, <2>3
    <3> QED
      BY <1>7, <3>1 DEF InOrder
  <2> QED
    BY <1>3, <1>7, <1>2, <2>1, <2>2, <2>3
<1> QED
  BY <1>1, <1>6, <1>7 DEF InOrder

(* A stretch of a queue, and what follows it. *)
LEMMA SubSeqOrder ==
  ASSUME NEW S, NEW q \in Seq(S), NEW n \in Nat, n <= Len(q), NEW R
  PROVE  LET a == SubSeq(q, 1, n)
             b == SubSeq(q, n + 1, Len(q))
         IN  /\ a \in Seq(S) /\ b \in Seq(S)
             /\ Items(a) \cup Items(b) \subseteq Items(q)
             /\ InOrder(q, R) => InOrder(a, R) /\ InOrder(b, R) /\ Items(a) \X Items(b) \subseteq R
<1>1. PICK a : a = SubSeq(q, 1, n)
  OBVIOUS
<1>2. PICK b : b = SubSeq(q, n + 1, Len(q))
  OBVIOUS
<1>3. Len(q) \in Nat /\ \A i \in 1..Len(q) : q[i] \in S
  BY LenProperties, ElementOfSeq
<1>4. a \in Seq(S) /\ Len(a) = n /\ \A i \in 1..n : i \in 1..Len(q) /\ a[i] = q[i]
  <2>1. \A i \in 1..n : q[i] \in S /\ i \in 1..Len(q)
    BY <1>3
  <2>2. a \in Seq(S) /\ Len(a) = (IF 1 <= n THEN n - 1 + 1 ELSE 0)
        /\ \A i \in 1..(n - 1 + 1) : a[i] = q[1 + i - 1]
    BY <1>1, <2>1, SubSeqProperties
  <2>3. Len(a) = n
    BY <2>2
  <2>4. \A i \in 1..n : i \in 1..(n - 1 + 1) /\ 1 + i - 1 = i
    OBVIOUS
  <2> QED
    BY <2>1, <2>2, <2>3, <2>4
<1>5. /\ b \in Seq(S) /\ Len(b) = Len(q) - n
      /\ \A i \in 1..Len(b) : n + i \in 1..Len(q) /\ b[i] = q[n + i]
  <2>1. \A i \in (n + 1)..Len(q) : q[i] \in S
    BY <1>3
  <2>2. /\ b \in Seq(S)
        /\ Len(b) = (IF n + 1 <= Len(q) THEN Len(q) - (n + 1) + 1 ELSE 0)
        /\ \A i \in 1..(Len(q) - (n + 1) + 1) : b[i] = q[(n + 1) + i - 1]
    BY <1>2, <1>3, <2>1, SubSeqProperties
  <2>3. Len(b) = Len(q) - n
    BY <1>3, <2>2
  <2>4. \A i \in 1..Len(b) : /\ i \in 1..(Len(q) - (n + 1) + 1) /\ (n + 1) + i - 1 = n + i
                             /\ n + i \in 1..Len(q)
    BY <1>3, <2>3
  <2> QED
    BY <2>2, <2>3, <2>4
<1>6. Items(a) \subseteq Items(q) /\ Items(b) \subseteq Items(q)
  <2>1. ASSUME NEW i \in 1..Len(a) PROVE a[i] \in Items(q)
    BY <1>4 DEF Items
  <2>2. ASSUME NEW i \in 1..Len(b) PROVE b[i] \in Items(q)
    BY <1>5 DEF Items
  <2> QED
    BY <2>1, <2>2 DEF Items
<1>7. ASSUME InOrder(q, R)
      PROVE  InOrder(a, R) /\ InOrder(b, R) /\ Items(a) \X Items(b) \subseteq R
  <2>1. InOrder(a, R)
    BY <1>4, <1>7 DEF InOrder
  <2>2. InOrder(b, R)
    <3> SUFFICES ASSUME NEW i \in 1..Len(b), NEW j \in 1..Len(b), i < j
                 PROVE  <<b[i], b[j]>> \in R
      BY DEF InOrder
    <3>1. n + i \in 1..Len(q) /\ n + j \in 1..Len(q) /\ n + i < n + j
      BY <1>5
    <3> QED
      BY <1>5, <1>7, <3>1 DEF InOrder
  <2>3. ASSUME NEW i \in 1..Len(a), NEW j \in 1..Len(b) PROVE <<a[i], b[j]>> \in R
    <3>1. i \in 1..Len(q) /\ n + j \in 1..Len(q) /\ i < n + j /\ a[i] = q[i] /\ b[j] = q[n + j]
      BY <1>4, <1>5
    <3> QED
      BY <1>7, <3>1 DEF InOrder
  <2>4. \A x \in Items(a), y \in Items(b) : <<x, y>> \in R
    BY <2>3 DEF Items
  <2> QED
    BY <2>1, <2>2, <2>4
<1> QED
  BY <1>1, <1>2, <1>4, <1>5, <1>6, <1>7

---------------------------------------------------------------------------
(* The order of segments.                                                  *)

LEMMA SegmentOrderProperties ==
  /\ \A s \in SegItem : <<s, NoSegment>> \in SegmentOrder /\ <<NoSegment, s>> \in SegmentOrder
  /\ \A x, y \in Segment : /\ x # NoSegment
                         /\ After(x, y) <=> <<x, y>> \in SegmentOrder
BY DEF SegmentOrder, SegItem, Segment, NoSegment, Utterances

LEMMA AfterInOrder ==
  ASSUME NEW r \in Segment, NEW s \in Segment, After(r, s)
  PROVE  <<r, s>> \in SegmentOrder
BY DEF SegmentOrder, SegItem

(* After is transitive over segments that hold something. *)
LEMMA AfterTransitive ==
  ASSUME NEW r \in Segment, NEW s \in Segment, NEW t \in Segment,
         After(r, s), s.lo < s.hi, After(s, t)
  PROVE  After(r, t)
<1>1. /\ r.turn \in Nat /\ s.turn \in Nat /\ t.turn \in Nat
      /\ r.hi \in Nat /\ s.lo \in Nat /\ s.hi \in Nat /\ t.lo \in Nat
  BY DEF Segment
<1> QED
  BY <1>1 DEF After

LEMMA LeastNumber ==
  ASSUME NEW T \in SUBSET Nat, T # {}
  PROVE  \E x \in T : \A y \in T : x <= y
<1> DEFINE R == {ss \in Nat \X Nat : ss[1] < ss[2]}
<1>1. IsWellFoundedOn(R, Nat)
  BY NatLessThanWellFounded DEF OpToRel
<1> HIDE DEF R
<1>2. PICK x \in T : \A y \in T : ~(<<y, x>> \in R)
  BY <1>1, WFMin, Zenon
<1>3. \A y \in T : ~(y < x)
  BY <1>2 DEF R
<1> QED
  BY <1>3

(* The pieces of a tiling follow each other, by the least counterexample. *)
LEMMA TilingsOrder ==
  ASSUME NEW u \in Utterances, NEW t \in Nat, NEW lo \in Nat, NEW hi \in Nat,
         NEW segs \in Tilings(u, t, lo, hi)
  PROVE  /\ lo <= EndOf(segs, lo)
         /\ \A s \in Items(segs) :
              /\ s \in Segment /\ s.turn = t
              /\ lo <= s.lo /\ s.lo < s.hi /\ s.hi <= EndOf(segs, lo)
         /\ InOrder(segs, SegmentOrder)
<1> DEFINE n == Len(segs)
<1>1. /\ segs \in Seq(Segment) /\ n \in Nat /\ DOMAIN segs = 1..n
      /\ \A i \in 1..n : segs[i] \in Segment
  BY TilingsProperties, LenProperties, ElementOfSeq
<1>2. \A i \in 1..n :
        /\ segs[i].lo = IF i = 1 THEN lo ELSE segs[i - 1].hi
        /\ segs[i].lo < segs[i].hi
  BY <1>1 DEF Tilings
<1>3. \A i \in 1..n : segs[i].turn = t /\ lo <= segs[i].lo
  <2> DEFINE Piece == [utt : {u}, turn : {t}, lo : lo..hi, hi : lo..hi]
  <2>1. PICK k \in 0..(hi - lo) : segs \in [1..k -> Piece]
    BY DEF Tilings
  <2>2. \A i \in 1..n : segs[i] \in Piece
    BY <1>1, <2>1
  <2> QED
    BY <2>2
<1> HIDE DEF n
<1>4. \A i \in 1..n : segs[i].lo \in Nat /\ segs[i].hi \in Nat /\ segs[i].turn \in Nat
  BY <1>1 DEF Segment
<1>5. ASSUME NEW i \in 1..n, NEW j \in 1..n, i < j PROVE segs[i].hi <= segs[j].lo
  <2> DEFINE Late == {k \in 1..n : i < k /\ ~(segs[i].hi <= segs[k].lo)}
  <2> SUFFICES ASSUME j \in Late PROVE FALSE
    BY <1>5
  <2>1. Late \subseteq Nat
    BY <1>1
  <2>2. PICK k \in Late : \A m \in Late : k <= m
    BY <2>1, LeastNumber
  <2>3. k \in 1..n /\ i < k /\ ~(segs[i].hi <= segs[k].lo) /\ k \in Nat /\ k # 1
    BY <1>1, <1>5
  <2>4. k - 1 \in 1..n /\ k - 1 \in Nat /\ k - 1 < k
    BY <1>1, <2>3
  <2>5. segs[k].lo = segs[k - 1].hi
    BY <1>2, <2>3
  <2>6. k - 1 \notin Late
    BY <2>2, <2>3, <2>4
  <2>7. CASE k - 1 = i
    BY <1>4, <2>3, <2>5, <2>7
  <2>8. CASE k - 1 # i
    <3>1. i < k - 1
      BY <1>1, <2>3, <2>8
    <3>2. segs[i].hi <= segs[k - 1].lo
      BY <2>4, <2>6, <3>1
    <3> QED
      BY <1>2, <1>4, <2>3, <2>4, <2>5, <3>2
  <2> QED
    BY <2>7, <2>8
<1>6. InOrder(segs, SegmentOrder)
  <2> SUFFICES ASSUME NEW i \in 1..n, NEW j \in 1..n, i < j
               PROVE  <<segs[i], segs[j]>> \in SegmentOrder
    BY DEF InOrder, n
  <2>1. After(segs[i], segs[j])
    BY <1>3, <1>5 DEF After
  <2> QED
    BY <1>1, <2>1, AfterInOrder
<1>7. \A i \in 1..n : segs[i].hi <= EndOf(segs, lo)
  <2> SUFFICES ASSUME NEW i \in 1..n PROVE segs[i].hi <= EndOf(segs, lo)
    OBVIOUS
  <2>1. n \in 1..n /\ segs # <<>>
    BY <1>1, EmptySeq DEF n
  <2>2. EndOf(segs, lo) = segs[n].hi
    BY <2>1 DEF EndOf, n
  <2>3. CASE i = n
    BY <1>4, <2>2, <2>3
  <2>4. CASE i < n
    <3>1. segs[i].hi <= segs[n].lo /\ segs[n].lo < segs[n].hi
      BY <1>2, <1>5, <2>1, <2>4
    <3> QED
      BY <1>4, <2>1, <2>2, <3>1
  <2> QED
    BY <1>1, <2>3, <2>4
<1>8. lo <= EndOf(segs, lo)
  <2>1. CASE segs = <<>>
    BY <2>1 DEF EndOf
  <2>2. CASE segs # <<>>
    <3>1. n \in 1..n
      BY <1>1, <2>2, EmptySeq DEF n
    <3>2. EndOf(segs, lo) = segs[n].hi
      BY <2>2 DEF EndOf, n
    <3> QED
      BY <1>2, <1>3, <1>4, <3>1, <3>2
  <2> QED
    BY <2>1, <2>2
<1>9. \A s \in Items(segs) : \E i \in 1..n : s = segs[i]
  BY DEF Items, n
<1> QED
  BY <1>1, <1>2, <1>3, <1>6, <1>7, <1>8, <1>9

---------------------------------------------------------------------------
(* The STT stage.                                                          *)

(* What is put, and what did not fit, follows what is queued. *)
LEMMA PutSegmentsOrder ==
  ASSUME segQ \in Seq(SegItem), Len(segQ) <= QueueMax, NEW segs \in Seq(Segment),
         InOrder(segQ, SegmentOrder), InOrder(segs, SegmentOrder),
         Items(segQ) \X Items(segs) \subseteq SegmentOrder,
         NEW final \in BOOLEAN, NEW u, NEW m, NEW c, PutSegments(segs, final, u, m, c)
  PROVE  /\ InOrder(segQ', SegmentOrder) /\ InOrder(puts', SegmentOrder)
         /\ Items(segQ') \X Items(puts') \subseteq SegmentOrder
         /\ Items(segQ') \cup Items(puts') \subseteq Items(segQ) \cup Items(segs)
<1>1. /\ segs \in Seq(SegItem) /\ Len(segs) \in Nat /\ Len(segQ) \in Nat /\ QueueMax \in Nat
      /\ Items(<<>>) = {} /\ InOrder(<<>>, SegmentOrder)
  BY SeqMonotonic, LenProperties, QueueMaxAssumption DEF SegItem, Items, InOrder
<1>2. Room \in Nat
  BY <1>1 DEF Room
<1>3. CASE Len(segs) <= Room
  <2>1. segQ' = segQ \o segs /\ puts' = <<>>
    BY <1>3 DEF PutSegments
  <2> QED
    BY <1>1, <2>1, ConcatOrder
<1>4. CASE ~(Len(segs) <= Room)
  <2>1. PICK a : a = SubSeq(segs, 1, Room)
    OBVIOUS
  <2>2. PICK b : b = SubSeq(segs, Room + 1, Len(segs))
    OBVIOUS
  <2>3. segQ' = segQ \o a /\ puts' = b
    BY <1>4, <2>1, <2>2 DEF PutSegments
  <2>4. Room <= Len(segs)
    BY <1>1, <1>2, <1>4
  <2>5. /\ a \in Seq(SegItem) /\ b \in Seq(SegItem)
        /\ Items(a) \cup Items(b) \subseteq Items(segs)
        /\ InOrder(a, SegmentOrder) /\ InOrder(b, SegmentOrder)
        /\ Items(a) \X Items(b) \subseteq SegmentOrder
    BY <1>1, <1>2, <2>1, <2>2, <2>4, SubSeqOrder
  <2>6. /\ Items(segQ') = Items(segQ) \cup Items(a)
        /\ InOrder(segQ', SegmentOrder)
    <3>1. Items(segQ) \X Items(a) \subseteq SegmentOrder
      BY <2>5
    <3> QED
      BY <2>3, <2>5, <3>1, ConcatOrder
  <2> QED
    BY <2>3, <2>5, <2>6
<1> QED
  BY <1>3, <1>4

(* A step of the STT stage that puts something, or nothing. *)
LEMMA PutOrder ==
  ASSUME TypeInv, SegmentsInv, UNCHANGED <<translated, cur, supPc>>, turn' # 0,
         InOrder(segQ', SegmentOrder), InOrder(puts', SegmentOrder),
         Items(segQ') \X Items(puts') \subseteq SegmentOrder,
         NEW New \in SUBSET Segment,
         Items(segQ') \cup Items(puts') \subseteq Items(segQ) \cup Items(puts) \cup New \cup {NoSegment},
         \A s \in New : s.lo < s.hi /\ Behind(s)',
         \A s \in Segment : Behind(s) => Behind(s)' /\ \A x \in New : After(s, x),
         sttPc' = "put" /\ ending' => curTurn' # turn'
  PROVE  SegmentsInv'
<1>1. /\ translated \in SegItem /\ cur \in SegItem /\ NoSegment \in SegItem
      /\ Items(segQ) \subseteq SegItem /\ Items(puts) \subseteq Segment
  <2>1. segQ \in Seq(SegItem) /\ puts \in Seq(Segment)
    BY DEF TypeInv, TypeOK, QueueTypeOK, SttTypeOK, SegItem
  <2>2. /\ \A i \in 1..Len(segQ) : segQ[i] \in SegItem
        /\ \A i \in 1..Len(puts) : puts[i] \in Segment
    BY <2>1, ElementOfSeq
  <2> QED
    BY <2>2 DEF TypeInv, TypeOK, SupTypeOK, SegItem, Items
<1>2. PICK Old : Old = Items(segQ) \cup Items(puts)
  OBVIOUS
<1>3. PICK Now : Now = Items(segQ') \cup Items(puts')
  OBVIOUS
<1>4. /\ Now \subseteq Old \cup New \cup {NoSegment} /\ Old \subseteq SegItem
      /\ {translated, cur} \X Old \subseteq SegmentOrder
      /\ \A s \in {translated, cur} \cup Old : s # NoSegment => Behind(s) /\ s.lo < s.hi
  BY <1>1, <1>2, <1>3 DEF SegmentsInv, SegItem
<1>5. ASSUME NEW s \in {translated, cur}, NEW x \in Now PROVE <<s, x>> \in SegmentOrder
  <2>1. CASE x \in Old \/ x = NoSegment \/ s = NoSegment
    BY <1>1, <1>4, <2>1, SegmentOrderProperties DEF SegItem
  <2>2. CASE x \in New /\ s # NoSegment
    <3>1. s \in Segment /\ After(s, x)
      BY <1>1, <1>4, <2>2 DEF SegItem
    <3> QED
      BY <2>2, <3>1, SegmentOrderProperties
  <2> QED
    BY <1>4, <2>1, <2>2
<1>6. ASSUME NEW s \in {translated, cur} \cup Now, s # NoSegment
      PROVE  Behind(s)' /\ s.lo < s.hi
  <2>1. CASE s \in New
    BY <2>1
  <2>2. CASE s \notin New
    <3>1. s \in {translated, cur} \cup Old
      BY <1>4, <1>6, <2>2
    <3>2. s \in Segment
      BY <1>1, <1>4, <1>6, <3>1 DEF SegItem
    <3> QED
      BY <1>4, <1>6, <3>1, <3>2
  <2> QED
    BY <2>1, <2>2
<1>7. supPc' = "got" => <<translated', cur'>> \in SegmentOrder
  BY DEF SegmentsInv
<1>8. {translated', cur'} \X Now \subseteq SegmentOrder
  BY <1>5
<1>9. \A s \in {translated', cur'} \cup Now : s # NoSegment => Behind(s)' /\ s.lo < s.hi
  BY <1>6
<1> QED
  BY <1>3, <1>7, <1>8, <1>9 DEF SegmentsInv

LEMMA PutOldOrder ==
  ASSUME TypeInv, SegmentsInv, UNCHANGED <<translated, cur, supPc>>, turn' # 0,
         InOrder(segQ', SegmentOrder), InOrder(puts', SegmentOrder),
         Items(segQ') \X Items(puts') \subseteq SegmentOrder,
         Items(segQ') \cup Items(puts') \subseteq Items(segQ) \cup Items(puts),
         \A s \in Segment : Behind(s) => Behind(s)',
         sttPc' = "put" /\ ending' => curTurn' # turn'
  PROVE  SegmentsInv'
<1>1. PICK new : new = {}
  OBVIOUS
<1>2. /\ new \in SUBSET Segment
      /\ Items(segQ') \cup Items(puts') \subseteq
           Items(segQ) \cup Items(puts) \cup new \cup {NoSegment}
      /\ \A s \in new : s.lo < s.hi /\ Behind(s)'
      /\ \A s \in Segment : Behind(s) => Behind(s)' /\ \A x \in new : After(s, x)
  BY <1>1
<1> QED
  BY <1>2, PutOrder

(* What the STT stage reads of its own state. *)
LEMMA SttFacts ==
  ASSUME TypeInv, SegmentsInv
  PROVE  /\ turn \in Nat /\ turn # 0 /\ curTurn \in Nat /\ closed \in Nat
         /\ rollRequests \in Nat /\ rollDone \in Nat
         /\ segQ \in Seq(SegItem) /\ Len(segQ) <= QueueMax /\ puts \in Seq(Segment)
         /\ Items(segQ) \subseteq SegItem /\ Items(puts) \subseteq Segment
         /\ \A s \in Segment : s.turn \in Nat /\ s.lo \in Nat /\ s.hi \in Nat
         /\ \A s \in Segment : s # NoSegment /\ (s \in Items(segQ) => Behind(s))
<1>1. segQ \in Seq(SegItem) /\ Len(segQ) <= QueueMax /\ puts \in Seq(Segment)
  BY DEF TypeInv, TypeOK, QueueTypeOK, SttTypeOK, SegItem
<1>2. /\ \A i \in 1..Len(segQ) : segQ[i] \in SegItem
      /\ \A i \in 1..Len(puts) : puts[i] \in Segment
  BY <1>1, ElementOfSeq
<1>3. Items(segQ) \subseteq SegItem /\ Items(puts) \subseteq Segment
  BY <1>2 DEF Items
<1>4. \A s \in Segment : s.turn \in Nat /\ s.lo \in Nat /\ s.hi \in Nat
  BY DEF Segment
<1>5. \A s \in Segment : s # NoSegment
  BY DEF Segment, NoSegment, Utterances
<1> QED
  BY <1>1, <1>3, <1>4, <1>5
  DEF TypeInv, TypeOK, SttTypeOK, SupTypeOK, SegmentsInv

(* A hypothesis that is dropped cuts nothing, and rolls only forward. *)
LEMMA DropHypothesisOrder ==
  ASSUME TypeInv, SegmentsInv, NEW final \in BOOLEAN, DropHypothesis(final)
  PROVE  SegmentsInv'
<1>1. /\ sttPc' = "listen" /\ turn' = IF final THEN turn + 1 ELSE turn
      /\ staleTurns' = RolledStale /\ IsStale(final)
      /\ UNCHANGED <<puts, segQ, translated, cur, supPc>>
  BY DEF DropHypothesis, HypothesisArrives, beyondStt, supVars, workVars
<1>2. turn \in Nat /\ turn' # 0 /\ staleTurns \subseteq staleTurns'
  BY <1>1, SttFacts DEF RolledStale
<1>3. ~final => turn \in staleTurns'
  BY <1>1 DEF IsStale
<1>4. ASSUME NEW s \in Segment, Behind(s) PROVE Behind(s)'
  <2>1. s.turn \in Nat /\ (s.turn < turn \/ s.turn = turn)
    BY <1>4, SttFacts DEF Behind
  <2>2. CASE final
    <3>1. s.turn < turn'
      BY <1>1, <1>2, <2>1, <2>2
    <3> QED
      BY <3>1 DEF Behind
  <2>3. CASE ~final
    BY <1>1, <1>3, <2>1, <2>3 DEF Behind
  <2> QED
    BY <2>2, <2>3
<1>5. /\ InOrder(segQ', SegmentOrder) /\ InOrder(puts', SegmentOrder)
      /\ Items(segQ') \X Items(puts') \subseteq SegmentOrder
      /\ Items(segQ') \cup Items(puts') \subseteq Items(segQ) \cup Items(puts)
  BY <1>1 DEF SegmentsInv
<1> QED
  BY <1>1, <1>2, <1>4, <1>5, PutOldOrder

(***************************************************************************)
(* What is cut lies after everything cut before: in a later turn, or after *)
(* the tokens already in closed segments.  A roll that is owed restarts    *)
(* the count only when it makes the turn stale, and then the hypothesis    *)
(* would have been dropped.                                                *)
(***************************************************************************)
LEMMA KeepHypothesisOrder ==
  ASSUME HasTurnIds, TypeInv, SegmentsInv, NEW final \in BOOLEAN, KeepHypothesis(final)
  PROVE  SegmentsInv'
<1>1. PICK m \in 0..MaxTokens :
        \E segs \in Tilings(RolledUtt, turn, RolledClosed, m) :
          PutSegments(segs, final, RolledUtt, m, EndOf(segs, RolledClosed))
  BY DEF KeepHypothesis
<1>2. PICK segs \in Tilings(RolledUtt, turn, RolledClosed, m) :
        PutSegments(segs, final, RolledUtt, m, EndOf(segs, RolledClosed))
  BY <1>1
<1>3. /\ turn' = (IF final THEN turn + 1 ELSE turn) /\ curTurn' = turn
      /\ staleTurns' = RolledStale /\ ~IsStale(final)
      /\ UNCHANGED <<translated, cur, supPc>>
  BY DEF KeepHypothesis, HypothesisArrives, beyondStt, supVars, workVars
<1>4. PICK new : new = Items(segs)
  OBVIOUS
<1>5. PICK end : end = EndOf(segs, RolledClosed)
  OBVIOUS
<1>6. /\ RolledClosed <= end /\ end \in Nat /\ RolledClosed \in Nat
      /\ segs \in Seq(Segment) /\ InOrder(segs, SegmentOrder)
      /\ \A s \in new : /\ s \in Segment /\ s.turn = turn /\ RolledClosed <= s.lo
                       /\ s.lo < s.hi /\ s.hi <= end
  <2>1. m \in Nat /\ RolledUtt \in Utterances /\ RolledClosed \in Nat /\ turn \in Nat
    BY BoundsAssumption, RolledTypes
  <2> QED
    BY <1>4, <1>5, <2>1, TilingsOrder, TilingsProperties
<1>7. /\ turn \in Nat /\ turn # 0 /\ turn' # 0 /\ turn \notin RolledStale
      /\ staleTurns \subseteq staleTurns'
  BY <1>3, SttFacts DEF IsStale, RolledStale
<1>8. curTurn = turn => RolledClosed = closed
  BY <1>7 DEF RolledStale, RolledClosed
<1>9. ~final => closed' = end
  BY <1>2, <1>5 DEF PutSegments
<1>10. ASSUME NEW s \in new PROVE s.lo < s.hi /\ Behind(s)'
  <2>1. s.turn = turn /\ s.hi <= end
    BY <1>6
  <2>2. CASE final
    <3>1. s.turn < turn'
      BY <1>3, <1>7, <2>1, <2>2
    <3> QED
      BY <1>6, <3>1 DEF Behind
  <2>3. CASE ~final
    BY <1>3, <1>6, <1>9, <2>1, <2>3 DEF Behind
  <2> QED
    BY <2>2, <2>3
<1>11. ASSUME NEW s \in Segment, Behind(s)
       PROVE  Behind(s)' /\ \A x \in new : After(s, x)
  <2>1. /\ s.turn \in Nat /\ s.hi \in Nat
        /\ s.turn < turn \/ (s.turn = turn /\ s.hi <= RolledClosed)
    BY <1>3, <1>7, <1>8, <1>11, SttFacts DEF Behind
  <2>2. ASSUME NEW x \in new PROVE After(s, x)
    <3>1. x.turn = turn /\ RolledClosed <= x.lo /\ x.lo \in Nat
      BY <1>6, SttFacts
    <3> QED
      BY <1>6, <2>1, <3>1 DEF After
  <2>3. CASE final
    <3>1. s.turn < turn'
      BY <1>3, <1>7, <2>1, <2>3
    <3> QED
      BY <2>2, <3>1 DEF Behind
  <2>4. CASE ~final
    <3>1. turn' = turn /\ closed' = end
      BY <1>3, <1>9, <2>4
    <3>2. s.turn < turn \/ (s.turn = turn /\ s.hi <= end)
      BY <1>6, <2>1
    <3> QED
      BY <1>3, <2>2, <3>1, <3>2 DEF Behind
  <2> QED
    BY <2>3, <2>4
<1>12. Items(segQ) \X new \subseteq SegmentOrder
  <2>1. ASSUME NEW s \in Items(segQ), NEW x \in new PROVE <<s, x>> \in SegmentOrder
    <3>1. x \in Segment /\ x \in SegItem /\ s \in SegItem
      BY <1>6, SttFacts DEF SegItem
    <3>2. CASE s = NoSegment
      BY <3>1, <3>2, SegmentOrderProperties
    <3>3. CASE s # NoSegment
      <4>1. s \in Segment /\ Behind(s)
        BY <3>1, <3>3, SttFacts DEF SegItem
      <4> QED
        BY <1>11, <3>1, <4>1, AfterInOrder
    <3> QED
      BY <3>2, <3>3
  <2> QED
    BY <2>1
<1>13. /\ InOrder(segQ', SegmentOrder) /\ InOrder(puts', SegmentOrder)
       /\ Items(segQ') \X Items(puts') \subseteq SegmentOrder
       /\ Items(segQ') \cup Items(puts') \subseteq Items(segQ) \cup new
  <2>1. segQ \in Seq(SegItem) /\ Len(segQ) <= QueueMax /\ InOrder(segQ, SegmentOrder)
    BY SttFacts DEF SegmentsInv
  <2> QED
    BY <1>2, <1>4, <1>6, <1>12, <2>1, PutSegmentsOrder
<1>14. sttPc' = "put" /\ ending' => curTurn' # turn'
  <2>1. sttPc' = "put" => ending' = final
    BY <1>2 DEF PutSegments
  <2>2. final => turn' # turn
    BY <1>3, <1>7
  <2> QED
    BY <1>3, <2>1, <2>2, Zenon
<1>15. Items(segQ') \cup Items(puts') \subseteq Items(segQ) \cup Items(puts) \cup new \cup {NoSegment}
  BY <1>13
<1>16. new \in SUBSET Segment
  BY <1>6
<1> QED
  BY <1>3, <1>7, <1>10, <1>11, <1>13, <1>14, <1>15, <1>16, PutOrder

(* The put that goes on ends the utterance only if its turn is over. *)
LEMMA ResumePutOrder ==
  ASSUME TypeInv, SegmentsInv, ResumePut
  PROVE  SegmentsInv'
<1>1. /\ sttPc = "put" /\ PutSegments(puts, ending, utt, committed, closed)
      /\ UNCHANGED <<turn, curTurn, staleTurns, translated, cur, supPc>>
  BY DEF ResumePut, beyondStt, supVars, workVars
<1>2. ending \in BOOLEAN
  BY DEF TypeInv, TypeOK, SttTypeOK
<1>3. /\ InOrder(segQ', SegmentOrder) /\ InOrder(puts', SegmentOrder)
      /\ Items(segQ') \X Items(puts') \subseteq SegmentOrder
      /\ Items(segQ') \cup Items(puts') \subseteq Items(segQ) \cup Items(puts)
  <2>1. /\ segQ \in Seq(SegItem) /\ Len(segQ) <= QueueMax /\ puts \in Seq(Segment)
        /\ InOrder(segQ, SegmentOrder) /\ InOrder(puts, SegmentOrder)
        /\ Items(segQ) \X Items(puts) \subseteq SegmentOrder
    BY SttFacts DEF SegmentsInv
  <2> QED
    BY <1>1, <1>2, <2>1, PutSegmentsOrder
<1>4. /\ closed' = closed \/ curTurn # turn
      /\ sttPc' = "put" /\ ending' => curTurn' # turn'
  <2>1. /\ closed' = closed \/ ending
        /\ sttPc' = "put" => ending' = ending
    BY <1>1 DEF PutSegments
  <2> QED
    BY <1>1, <2>1 DEF SegmentsInv
<1>5. \A s \in Segment : Behind(s) => Behind(s)'
  BY <1>1, <1>4 DEF Behind
<1>6. turn' # 0
  BY <1>1 DEF SegmentsInv
<1> QED
  BY <1>1, <1>3, <1>4, <1>5, <1>6, PutOldOrder

(* The sentinel of a stream that ends, or of a stage that is cancelled. *)
LEMMA SentinelOrder ==
  ASSUME TypeInv, SegmentsInv, PutSentinel \/ UNCHANGED segQ, puts' = puts \/ puts' = <<>>,
         UNCHANGED <<turn, curTurn, staleTurns, closed, translated, cur>>,
         sttPc' # "put" \/ UNCHANGED <<sttPc, ending>>, supPc' = "got" => supPc = "got"
  PROVE  SegmentsInv'
<1>1. segQ' = Append(segQ, NoSegment) \/ segQ' = segQ
  BY DEF PutSentinel
<1>2. /\ Items(segQ') \subseteq Items(segQ) \cup {NoSegment}
      /\ InOrder(segQ', SegmentOrder)
  <2>1. segQ \in Seq(SegItem) /\ NoSegment \in SegItem /\ InOrder(segQ, SegmentOrder)
    BY SttFacts, SegmentOrderProperties DEF SegItem, SegmentsInv
  <2>2. \A s \in Items(segQ) : <<s, NoSegment>> \in SegmentOrder
    BY SttFacts, SegmentOrderProperties
  <2>3. Items(segQ) \X {NoSegment} \subseteq SegmentOrder
    BY <2>2
  <2>4. /\ Items(Append(segQ, NoSegment)) = Items(segQ) \cup {NoSegment}
        /\ InOrder(Append(segQ, NoSegment), SegmentOrder)
    BY <2>1, <2>3, AppendOrder
  <2> QED
    BY <1>1, <2>1, <2>4
<1>3. Items(puts') \subseteq Items(puts) /\ InOrder(puts', SegmentOrder)
  <2>1. Items(<<>>) = {} /\ InOrder(<<>>, SegmentOrder)
    BY DEF Items, InOrder
  <2> QED
    BY <2>1 DEF SegmentsInv
<1>4. Items(segQ') \X Items(puts') \subseteq SegmentOrder
  <2>1. \A x \in Items(puts') : <<NoSegment, x>> \in SegmentOrder
    BY <1>3, SttFacts, SegmentOrderProperties DEF SegItem
  <2> QED
    BY <1>2, <1>3, <2>1 DEF SegmentsInv
<1>5. ASSUME NEW s \in {translated, cur}, NEW x \in Items(segQ') \cup Items(puts')
      PROVE  <<s, x>> \in SegmentOrder
  <2>1. CASE x = NoSegment
    <3>1. s \in SegItem
      BY DEF TypeInv, TypeOK, SupTypeOK, SegItem
    <3> QED
      BY <2>1, <3>1, SegmentOrderProperties
  <2>2. CASE x # NoSegment
    BY <1>2, <1>3, <2>2 DEF SegmentsInv
  <2> QED
    BY <2>1, <2>2
<1>6. \A s \in {translated, cur} \cup Items(segQ') \cup Items(puts') :
        s # NoSegment => Behind(s) /\ s.lo < s.hi
  BY <1>2, <1>3 DEF SegmentsInv
<1>7. \A s : Behind(s)' <=> Behind(s)
  BY DEF Behind
<1>8. \A s \in {translated, cur} \cup Items(segQ') \cup Items(puts') :
        s # NoSegment => Behind(s)' /\ s.lo < s.hi
  BY <1>6, <1>7
<1>9. {translated', cur'} \X (Items(segQ') \cup Items(puts')) \subseteq SegmentOrder
  BY <1>5
<1>10. supPc' = "got" => <<translated', cur'>> \in SegmentOrder
  BY DEF SegmentsInv
<1>11. turn' # 0 /\ (sttPc' = "put" /\ ending' => curTurn' # turn')
  BY DEF SegmentsInv
<1> QED
  BY <1>2, <1>3, <1>4, <1>8, <1>9, <1>10, <1>11 DEF SegmentsInv

LEMMA SttOrder ==
  ASSUME HasTurnIds, TypeInv, SegmentsInv, SttStep
  PROVE  SegmentsInv'
<1>1. CASE StreamEnds \/ ResumePutSentinel
  <2>1. /\ PutSentinel /\ puts' = puts
        /\ UNCHANGED <<turn, curTurn, staleTurns, closed, translated, cur, supPc>>
    BY <1>1 DEF StreamEnds, ResumePutSentinel, beyondStt, supVars, workVars
  <2>2. sttPc' # "put"
    BY <2>1 DEF PutSentinel
  <2> QED
    BY <2>1, <2>2, SentinelOrder
<1> QED
  BY <1>1, DropHypothesisOrder, KeepHypothesisOrder, ResumePutOrder DEF SttStep

---------------------------------------------------------------------------
(* The supervisor, and everything else.                                    *)

LEMMA TakeSegmentOrder ==
  ASSUME TypeInv, SegmentsInv, TakeSegment
  PROVE  SegmentsInv'
<1>1. /\ segQ # <<>> /\ cur' = Head(segQ) /\ segQ' = Tail(segQ)
      /\ UNCHANGED <<turn, curTurn, staleTurns, closed, sttPc, ending, puts, translated>>
  BY DEF TakeSegment, workVars, beyondSup, sttVars
<1>2. /\ cur' \in Items(segQ) /\ Items(segQ') \subseteq Items(segQ)
      /\ InOrder(segQ', SegmentOrder)
      /\ {cur'} \X Items(segQ') \subseteq SegmentOrder
  <2>1. segQ \in Seq(SegItem) /\ InOrder(segQ, SegmentOrder)
    BY SttFacts DEF SegmentsInv
  <2> QED
    BY <1>1, <2>1, TailOrder
<1>3. Items(segQ') \X Items(puts') \subseteq SegmentOrder
  BY <1>1, <1>2 DEF SegmentsInv
<1>4. {translated', cur'} \X (Items(segQ') \cup Items(puts')) \subseteq SegmentOrder
  <2>1. \A x \in Items(segQ') \cup Items(puts') : <<translated, x>> \in SegmentOrder
    BY <1>1, <1>2 DEF SegmentsInv
  <2>2. \A x \in Items(segQ') \cup Items(puts') : <<cur', x>> \in SegmentOrder
    BY <1>1, <1>2 DEF SegmentsInv
  <2> QED
    BY <1>1, <2>1, <2>2
<1>5. \A s \in {translated', cur'} \cup Items(segQ') \cup Items(puts') :
        s # NoSegment => Behind(s)' /\ s.lo < s.hi
  <2>1. \A s \in {translated', cur'} \cup Items(segQ') \cup Items(puts') :
          s # NoSegment => Behind(s) /\ s.lo < s.hi
    BY <1>1, <1>2 DEF SegmentsInv
  <2> QED
    BY <1>1, <2>1 DEF Behind
<1>6. <<translated', cur'>> \in SegmentOrder
  BY <1>1, <1>2 DEF SegmentsInv
<1> QED
  BY <1>1, <1>2, <1>3, <1>4, <1>5, <1>6 DEF SegmentsInv

(* Steps that take nothing: a segment may be given to MT, or the queue lose its payload. *)
LEMMA SegmentsFrame ==
  ASSUME TypeInv, SegmentsInv,
         UNCHANGED <<turn, curTurn, staleTurns, closed, sttPc, ending, puts, cur>>,
         segQ' = segQ \/ segQ' = Drain(segQ, NoSegment),
         \/ translated' = translated /\ (supPc' = "got" => supPc = "got")
         \/ translated' = cur /\ supPc' # "got"
  PROVE  SegmentsInv'
<1>1. InOrder(segQ', SegmentOrder) /\ Items(segQ') \subseteq Items(segQ) \cup {NoSegment}
  <2>1. CASE segQ' = segQ
    BY <2>1 DEF SegmentsInv
  <2>2. CASE segQ' = Drain(segQ, NoSegment)
    <3>1. NoSegment \in SegItem /\ segQ \in Seq(SegItem)
      BY SttFacts DEF SegItem
    <3>2. /\ segQ' \in Seq(SegItem) /\ \A i \in DOMAIN segQ' : segQ'[i] = NoSegment
      BY <2>2, <3>1, DrainProperties
    <3>3. \A i \in 1..Len(segQ') : segQ'[i] = NoSegment
      BY <3>2, LenProperties
    <3>4. <<NoSegment, NoSegment>> \in SegmentOrder
      BY <3>1, SegmentOrderProperties
    <3> QED
      BY <3>3, <3>4 DEF Items, InOrder
  <2> QED
    BY <2>1, <2>2
<1>2. translated' \in {translated, cur} /\ translated \in SegItem /\ cur \in SegItem
  BY DEF TypeInv, TypeOK, SupTypeOK, SegItem
<1>3. \A s \in SegItem : <<s, NoSegment>> \in SegmentOrder /\ <<NoSegment, s>> \in SegmentOrder
  BY SegmentOrderProperties
<1>4. Items(segQ') \X Items(puts') \subseteq SegmentOrder
  <2>1. \A x \in Items(puts) : <<NoSegment, x>> \in SegmentOrder
    BY <1>3, SttFacts DEF SegItem
  <2> QED
    BY <1>1, <2>1 DEF SegmentsInv
<1>5. {translated', cur'} \X (Items(segQ') \cup Items(puts')) \subseteq SegmentOrder
  <2>1. \A s \in {translated, cur}, x \in Items(segQ') \cup Items(puts) :
          <<s, x>> \in SegmentOrder
    BY <1>1, <1>2, <1>3 DEF SegmentsInv
  <2> QED
    BY <1>2, <2>1
<1>6. \A s \in {translated', cur'} \cup Items(segQ') \cup Items(puts') :
        s # NoSegment => Behind(s)' /\ s.lo < s.hi
  <2>1. \A s \in {translated', cur'} \cup Items(segQ') \cup Items(puts') :
          s # NoSegment => Behind(s) /\ s.lo < s.hi
    BY <1>1, <1>2 DEF SegmentsInv
  <2> QED
    BY <2>1 DEF Behind
<1> QED
  BY <1>1, <1>4, <1>5, <1>6 DEF SegmentsInv

LEMMA SupervisorOrder ==
  ASSUME TypeInv, SegmentsInv, SupervisorStep \/ CancelSession
  PROVE  SegmentsInv'
<1>1. CASE SupervisorFails \/ CancelSession
  <2>1. /\ AbortGroup /\ UNCHANGED <<translated, cur>>
        /\ supPc' = "got" => supPc = "got"
    BY <1>1 DEF SupervisorFails, CancelSession, SupervisorRaises
  <2>2. /\ PutSentinel \/ UNCHANGED segQ
        /\ puts' = puts \/ puts' = <<>>
        /\ UNCHANGED <<turn, curTurn, staleTurns, closed>>
        /\ sttPc' # "put" \/ UNCHANGED <<sttPc, ending>>
    BY <2>1 DEF AbortGroup, AbortSttStage, PutSentinel, sttVars
  <2> QED
    BY <2>1, <2>2, SentinelOrder
<1>2. CASE BargeInWhileIdle \/ BargeInOnWork
  <2>1. /\ segQ' = Drain(segQ, NoSegment) /\ supPc' # "got"
        /\ UNCHANGED <<turn, curTurn, staleTurns, closed, sttPc, ending, puts, cur, translated>>
    BY <1>2 DEF BargeInWhileIdle, BargeInOnWork, BargeIn, Rearm, workVars, beyondSup, sttVars
  <2> QED
    BY <2>1, SegmentsFrame
<1>3. CASE \/ WaitForSegment \/ CancelGet \/ IgnoreOnset \/ DropSegment \/ StartWork
           \/ CloseTtsQueue \/ FinishSegment \/ CancelWork \/ SupervisorEnds \/ EndBargeIn
           \/ \E p \in stops : StopGeneration(p)
  <2>1. /\ UNCHANGED <<turn, curTurn, staleTurns, closed, sttPc, ending, puts, cur, segQ>>
        /\ \/ translated' = translated /\ (supPc' = "got" => supPc = "got")
           \/ translated' = cur /\ supPc' # "got"
    BY <1>3
    DEF WaitForSegment, CancelGet, IgnoreOnset, DropSegment, StartWork, CloseTtsQueue,
        FinishSegment, CancelWork, SupervisorEnds, EndBargeIn, Rearm, StopGeneration,
        workVars, beyondSup, sttVars
  <2> QED
    BY <2>1, SegmentsFrame
<1> QED
  BY <1>1, <1>2, <1>3, TakeSegmentOrder DEF SupervisorStep

LEMMA SegmentsNext ==
  HasTurnIds /\ TypeInv /\ SegmentsInv /\ [Next]_vars => SegmentsInv'
<1> SUFFICES ASSUME HasTurnIds, TypeInv, SegmentsInv, [Next]_vars PROVE SegmentsInv'
  OBVIOUS
<1>1. CASE SttStep
  BY <1>1, SttOrder
<1>2. CASE SupervisorStep \/ CancelSession
  BY <1>2, SupervisorOrder
<1>3. CASE \/ WorkStep \/ FailWork \/ PlaybackStep \/ FailPlayback \/ SinkStep
           \/ BargeStep \/ UNCHANGED vars
  <2>1. UNCHANGED <<turn, curTurn, staleTurns, closed, sttPc, ending, puts, cur, segQ,
                    translated, supPc>>
    <3>1. CASE WorkStep \/ FailWork
      BY <3>1 DEF WorkStep, FailWork, YieldChunk, ResumePutChunk, EndWork, beyondWork,
         supVars, sttVars
    <3>2. CASE PlaybackStep \/ FailPlayback
      BY <3>2 DEF PlaybackStep, FailPlayback, PlaybackEof, PlayChunk, ResumeSchedule,
         FinishDrain, beyondPlay, supVars, sttVars, workVars
    <3>3. CASE SinkStep
      BY <3>3 DEF SinkStep, Sound, Quiet, beyondSink, supVars, sttVars, workVars
    <3>4. CASE BargeStep \/ UNCHANGED vars
      BY <3>4 DEF BargeStep, Onset, BargeStreamEnds, beyondBarge, vars, supVars, sttVars,
         workVars
    <3> QED
      BY <1>3, <3>1, <3>2, <3>3, <3>4
  <2> QED
    BY <2>1, SegmentsFrame
<1> QED
  BY <1>1, <1>2, <1>3 DEF Next, FaultStep, Finish

LEMMA SegmentsInit == Init => SegmentsInv
<1> SUFFICES ASSUME Init PROVE SegmentsInv
  OBVIOUS
<1>1. /\ turn = 1 /\ segQ = <<>> /\ puts = <<>> /\ translated = NoSegment /\ cur = NoSegment
      /\ supPc = "next" /\ sttPc = "listen"
  BY DEF Init
<1>2. Items(<<>>) = {} /\ InOrder(<<>>, SegmentOrder)
  BY DEF Items, InOrder
<1> QED
  BY <1>1, <1>2 DEF SegmentsInv

(* Only the start of work gives a segment to MT. *)
LEMMA OnlyWorkTranslates ==
  ASSUME [Next]_vars, translated' # translated
  PROVE  StartWork
<1>1. CASE SupervisorStep
  BY <1>1
  DEF SupervisorStep, TakeSegment, WaitForSegment, CancelGet, BargeInWhileIdle, IgnoreOnset,
      DropSegment, CloseTtsQueue, FinishSegment, CancelWork, BargeInOnWork, StopGeneration,
      EndBargeIn, SupervisorEnds, SupervisorFails, workVars
<1>2. CASE SttStep \/ BargeStep \/ UNCHANGED vars
  BY <1>2 DEF SttStep, DropHypothesis, KeepHypothesis, ResumePut, StreamEnds,
     ResumePutSentinel, BargeStep, Onset, BargeStreamEnds, beyondStt, beyondBarge, vars,
     workVars
<1>3. CASE WorkStep \/ PlaybackStep \/ SinkStep \/ FaultStep
  BY <1>3 DEF WorkStep, YieldChunk, ResumePutChunk, EndWork, PlaybackStep, PlaybackEof,
     PlayChunk, ResumeSchedule, FinishDrain, SinkStep, Sound, Quiet, FaultStep,
     CancelSession, FailWork, FailPlayback, beyondPlay, beyondSink, workVars
<1> QED
  BY <1>1, <1>2, <1>3 DEF Next, Finish

LEMMA TranslatedInOrder ==
  ASSUME TypeInv, SegmentsInv, [Next]_vars, translated' # translated
  PROVE  translated = NoSegment \/ After(translated, translated')
<1>1. /\ translated' = cur /\ cur # NoSegment /\ <<translated, cur>> \in SegmentOrder
  BY OnlyWorkTranslates DEF StartWork, SegmentsInv
<1> QED
  BY <1>1 DEF SegmentOrder

LEMMA SegmentsInvariant == ASSUME HasTurnIds PROVE Spec => [](TypeInv /\ SegmentsInv)
<1>1. Init => TypeInv /\ SegmentsInv
  BY TypesInit, SegmentsInit
<1>2. (TypeInv /\ SegmentsInv) /\ [Next]_vars => (TypeInv /\ SegmentsInv)'
  BY TypesNext, SegmentsNext
<1> QED
  BY <1>1, <1>2, PTL DEF Spec

(* No token is given to MT twice, and turns are translated in order. *)
THEOREM NothingRetranslated == HasTurnIds => (Spec => NeverRetranslated)
<1> SUFFICES ASSUME HasTurnIds PROVE Spec => NeverRetranslated
  OBVIOUS
<1>1. Spec => [](TypeInv /\ SegmentsInv)
  BY SegmentsInvariant
<1>2. (TypeInv /\ SegmentsInv) /\ [Next]_vars =>
        [translated' # translated =>
           translated = NoSegment \/ After(translated, translated')]_vars
  BY TranslatedInOrder
<1> QED
  BY <1>1, <1>2, PTL DEF Spec, NeverRetranslated

---------------------------------------------------------------------------
(* No gap without a barge-in.                                              *)

(* t may come next after s: in its utterance where s ended, or at the      *)
(* beginning of another utterance.                                         *)
Follows(s, t) == t = NoSegment \/ t.lo = (IF s.utt = t.utt THEN s.hi ELSE 0)

Chained(q) == \A i \in 1..(Len(q) - 1) : Follows(q[i], q[i + 1])

(* Everything up to token c of utterance u has been cut, and s is last. *)
UpTo(s, u, c) == IF s.utt = u THEN s.hi = c ELSE s.utt < u /\ c = 0

(* Nothing has been interrupted. *)
Calm ==
  /\ supPc \notin {"cancelling", "stopping"}
  /\ rollRequests = 0 /\ rollDone = 0 /\ abandoned = {} /\ staleTurns = {}

(* All that is cut and not yet translated, after what was last. *)
Tip  == IF supPc = "got" THEN cur ELSE translated
Line == <<Tip>> \o (segQ \o puts)
LastOf(q) == q[Len(q)]

Gapless ==
  /\ Calm
  /\ supPc = "got" => Follows(translated, cur)
  /\ supPc \notin SupEnding =>
       /\ Chained(Line)
       /\ sttPc \in {"listen", "put"} => UpTo(LastOf(Line), utt, closed)

GapInv ==
  /\ sttPc # "put" => puts = <<>>
  /\ hitTurns = {} => Gapless

LEMMA ChainedConcat ==
  ASSUME NEW S, NEW q \in Seq(S), NEW r \in Seq(S), q # <<>>,
         Chained(q), Chained(r), r # <<>> => Follows(LastOf(q), r[1])
  PROVE  /\ Chained(q \o r)
         /\ LastOf(q \o r) = IF r = <<>> THEN LastOf(q) ELSE LastOf(r)
<1>1. PICK w : w = q \o r
  OBVIOUS
<1>2. /\ w \in Seq(S) /\ Len(w) = Len(q) + Len(r) /\ Len(q) \in Nat /\ Len(r) \in Nat
      /\ \A i \in 1..(Len(q) + Len(r)) : w[i] = IF i <= Len(q) THEN q[i] ELSE r[i - Len(q)]
      /\ Len(q) # 0 /\ (r = <<>> <=> Len(r) = 0)
  BY <1>1, ConcatProperties, LenProperties, EmptySeq
<1>3. ASSUME NEW i \in 1..(Len(w) - 1) PROVE Follows(w[i], w[i + 1])
  <2>1. CASE i < Len(q)
    <3>1. w[i] = q[i] /\ w[i + 1] = q[i + 1] /\ i \in 1..(Len(q) - 1)
      BY <1>2, <2>1
    <3> QED
      BY <3>1 DEF Chained
  <2>2. CASE i = Len(q)
    <3>1. /\ i \in 1..(Len(q) + Len(r)) /\ i <= Len(q)
          /\ i + 1 \in 1..(Len(q) + Len(r)) /\ ~(i + 1 <= Len(q)) /\ (i + 1) - Len(q) = 1
          /\ Len(r) # 0
      BY <1>2, <2>2
    <3>2. w[i] = q[Len(q)] /\ w[i + 1] = r[1] /\ r # <<>>
      BY <1>2, <2>2, <3>1
    <3> QED
      BY <3>2 DEF LastOf
  <2>3. CASE i > Len(q)
    <3>1. w[i] = r[i - Len(q)] /\ w[i + 1] = r[(i - Len(q)) + 1]
          /\ i - Len(q) \in 1..(Len(r) - 1)
      <4>1. w[i + 1] = r[(i + 1) - Len(q)] /\ (i + 1) - Len(q) = (i - Len(q)) + 1
        BY <1>2, <2>3
      <4> QED
        BY <1>2, <2>3, <4>1
    <3> QED
      BY <3>1 DEF Chained
  <2>4. i < Len(q) \/ i = Len(q) \/ i > Len(q)
    BY <1>2
  <2> QED
    BY <2>1, <2>2, <2>3, <2>4
<1>4. LastOf(w) = IF r = <<>> THEN LastOf(q) ELSE LastOf(r)
  <2>1. CASE Len(r) = 0
    <3>1. Len(w) = Len(q) /\ Len(q) \in 1..(Len(q) + Len(r))
      BY <1>2, <2>1
    <3>2. w[Len(q)] = q[Len(q)]
      BY <1>2, <2>1, <3>1
    <3> QED
      BY <1>2, <2>1, <3>1, <3>2 DEF LastOf
  <2>2. CASE Len(r) # 0
    <3>1. /\ Len(w) \in 1..(Len(q) + Len(r)) /\ ~(Len(w) <= Len(q))
          /\ Len(w) - Len(q) = Len(r)
      BY <1>2, <2>2
    <3>2. w[Len(w)] = r[Len(r)]
      BY <1>2, <3>1
    <3> QED
      BY <1>2, <2>2, <3>2 DEF LastOf
  <2> QED
    BY <2>1, <2>2
<1> QED
  BY <1>1, <1>3, <1>4 DEF Chained

LEMMA ChainedPrefix ==
  ASSUME NEW S, NEW q \in Seq(S), NEW r \in Seq(S), Chained(q \o r)
  PROVE  Chained(q)
<1>1. PICK w : w = q \o r
  OBVIOUS
<1>2. /\ Len(w) = Len(q) + Len(r) /\ Len(q) \in Nat /\ Len(r) \in Nat
      /\ \A i \in 1..(Len(q) + Len(r)) : w[i] = IF i <= Len(q) THEN q[i] ELSE r[i - Len(q)]
  BY <1>1, ConcatProperties, LenProperties
<1>3. \A i \in 1..(Len(q) - 1) : i \in 1..(Len(w) - 1) /\ w[i] = q[i] /\ w[i + 1] = q[i + 1]
  BY <1>2
<1> QED
  BY <1>1, <1>3 DEF Chained

(* The first of a line goes, and the next one takes its place. *)
LEMMA ChainedTail ==
  ASSUME NEW S, NEW x \in S, NEW q \in Seq(S), NEW r \in Seq(S), q # <<>>,
         Chained(<<x>> \o (q \o r))
  PROVE  LET line == <<x>> \o (q \o r)
             rest == <<Head(q)>> \o (Tail(q) \o r)
         IN  Follows(x, Head(q)) /\ Chained(rest) /\ LastOf(rest) = LastOf(line)
<1>1. PICK line : line = <<x>> \o (q \o r)
  OBVIOUS
<1>2. PICK rest : rest = <<Head(q)>> \o (Tail(q) \o r)
  OBVIOUS
<1>3. PICK a : a = q \o r
  OBVIOUS
<1>4. PICK t : t = Tail(q)
  OBVIOUS
<1>5. PICK b : b = t \o r
  OBVIOUS
<1>6. /\ Head(q) = q[1] /\ q[1] \in S /\ Len(q) \in Nat /\ Len(q) # 0 /\ Len(r) \in Nat
      /\ t \in Seq(S) /\ Len(t) = Len(q) - 1 /\ \A i \in 1..Len(t) : t[i] = q[i + 1]
  BY <1>4, HeadTailProperties, LenProperties, EmptySeq
<1>7. /\ a \in Seq(S) /\ Len(a) = Len(q) + Len(r)
      /\ \A i \in 1..(Len(q) + Len(r)) : a[i] = IF i <= Len(q) THEN q[i] ELSE r[i - Len(q)]
  BY <1>3, ConcatProperties
<1>8. /\ b \in Seq(S) /\ Len(b) = Len(t) + Len(r)
      /\ \A i \in 1..(Len(t) + Len(r)) : b[i] = IF i <= Len(t) THEN t[i] ELSE r[i - Len(t)]
  BY <1>5, <1>6, ConcatProperties
<1>9. /\ Len(line) = 1 + Len(a) /\ line[1] = x
      /\ \A i \in 2..(1 + Len(a)) : line[i] = a[i - 1]
  <2>1. /\ <<x>> \in Seq(S) /\ Len(<<x>>) = 1 /\ <<x>>[1] = x
    OBVIOUS
  <2>2. /\ Len(line) = Len(<<x>>) + Len(a)
        /\ \A i \in 1..(Len(<<x>>) + Len(a)) :
             line[i] = IF i <= Len(<<x>>) THEN <<x>>[i] ELSE a[i - Len(<<x>>)]
    BY <1>1, <1>3, <1>7, <2>1, ConcatProperties
  <2> QED
    BY <1>6, <1>7, <2>1, <2>2
<1>10. /\ Len(rest) = 1 + Len(b) /\ rest[1] = q[1]
       /\ \A i \in 2..(1 + Len(b)) : rest[i] = b[i - 1]
  <2>1. PICK y \in S : y = q[1]
    BY <1>6
  <2>2. /\ <<y>> \in Seq(S) /\ Len(<<y>>) = 1 /\ <<y>>[1] = y
    OBVIOUS
  <2>3. /\ Len(rest) = Len(<<y>>) + Len(b)
        /\ \A i \in 1..(Len(<<y>>) + Len(b)) :
             rest[i] = IF i <= Len(<<y>>) THEN <<y>>[i] ELSE b[i - Len(<<y>>)]
    BY <1>2, <1>4, <1>5, <1>6, <1>8, <2>1, <2>2, ConcatProperties
  <2> QED
    BY <1>6, <1>8, <2>1, <2>2, <2>3
<1>11. Len(rest) = Len(line) - 1 /\ Len(rest) \in Nat /\ Len(rest) # 0
  BY <1>6, <1>7, <1>8, <1>9, <1>10
<1>12. ASSUME NEW i \in 1..Len(rest) PROVE rest[i] = line[i + 1]
  <2>1. line[i + 1] = a[i]
    <3>1. i + 1 \in 2..(1 + Len(a)) /\ (i + 1) - 1 = i
      BY <1>6, <1>7, <1>9, <1>11
    <3> QED
      BY <1>9, <3>1
  <2>2. CASE i = 1
    BY <1>6, <1>7, <1>10, <2>1, <2>2
  <2>3. CASE i # 1 /\ i <= Len(q)
    <3>1. /\ i \in 2..(1 + Len(b)) /\ i - 1 \in 1..Len(t) /\ i - 1 \in 1..(Len(t) + Len(r))
          /\ i - 1 <= Len(t) /\ (i - 1) + 1 = i /\ i \in 1..(Len(q) + Len(r))
      BY <1>6, <1>8, <1>10, <2>3
    <3>2. rest[i] = t[i - 1] /\ t[i - 1] = q[i] /\ a[i] = q[i]
      BY <1>6, <1>7, <1>8, <1>10, <2>3, <3>1
    <3> QED
      BY <2>1, <3>2
  <2>4. CASE ~(i <= Len(q))
    <3>1. /\ i \in 2..(1 + Len(b)) /\ i - 1 \in 1..(Len(t) + Len(r))
          /\ ~(i - 1 <= Len(t)) /\ (i - 1) - Len(t) = i - Len(q) /\ i \in 1..(Len(q) + Len(r))
      BY <1>6, <1>8, <1>10, <2>4
    <3>2. rest[i] = b[i - 1] /\ b[i - 1] = r[(i - 1) - Len(t)] /\ a[i] = r[i - Len(q)]
      BY <1>7, <1>8, <1>10, <2>4, <3>1
    <3> QED
      BY <2>1, <3>1, <3>2
  <2> QED
    BY <2>2, <2>3, <2>4
<1>13. Chained(rest)
  <2> SUFFICES ASSUME NEW i \in 1..(Len(rest) - 1) PROVE Follows(rest[i], rest[i + 1])
    BY DEF Chained
  <2>1. i \in 1..Len(rest) /\ i + 1 \in 1..Len(rest) /\ i + 1 \in 1..(Len(line) - 1)
    BY <1>11
  <2>2. rest[i] = line[i + 1] /\ rest[i + 1] = line[(i + 1) + 1]
    BY <1>12, <2>1
  <2> QED
    BY <1>1, <2>1, <2>2 DEF Chained
<1>14. LastOf(rest) = LastOf(line)
  BY <1>11, <1>12 DEF LastOf
<1>15. Follows(x, Head(q))
  <2>1. 1 \in 1..(Len(line) - 1) /\ 1 + 1 \in 2..(1 + Len(a))
    BY <1>9, <1>11, <1>6, <1>7
  <2>2. line[1 + 1] = q[1]
    BY <1>6, <1>7, <1>9, <2>1
  <2>3. Follows(line[1], line[1 + 1])
    BY <1>1, <2>1 DEF Chained
  <2> QED
    BY <1>6, <1>9, <2>2, <2>3
<1> QED
  BY <1>1, <1>2, <1>13, <1>14, <1>15

(* The pieces of a tiling follow each other up to its end. *)
LEMMA TilingsChained ==
  ASSUME NEW u \in Utterances, NEW t \in Nat, NEW lo \in Nat, NEW hi \in Nat,
         NEW segs \in Tilings(u, t, lo, hi)
  PROVE  /\ Chained(segs)
         /\ segs # <<>> => /\ segs[1].lo = lo /\ segs[1].utt = u
                           /\ LastOf(segs).utt = u /\ LastOf(segs).hi = EndOf(segs, lo)
<1>1. /\ segs \in Seq(Segment) /\ Len(segs) \in Nat /\ DOMAIN segs = 1..Len(segs)
      /\ \A i \in 1..Len(segs) : segs[i].utt = u
      /\ segs # <<>> => Len(segs) # 0
  BY TilingsProperties, LenProperties, EmptySeq
<1>2. \A i \in 1..Len(segs) : segs[i].lo = IF i = 1 THEN lo ELSE segs[i - 1].hi
  BY <1>1 DEF Tilings
<1>3. Chained(segs)
  <2> SUFFICES ASSUME NEW i \in 1..(Len(segs) - 1) PROVE Follows(segs[i], segs[i + 1])
    BY DEF Chained
  <2>1. i \in 1..Len(segs) /\ i + 1 \in 1..Len(segs) /\ i + 1 # 1 /\ (i + 1) - 1 = i
    BY <1>1
  <2> QED
    BY <1>1, <1>2, <2>1 DEF Follows
<1> QED
  BY <1>1, <1>2, <1>3 DEF LastOf, EndOf

LEMMA LineTypes ==
  ASSUME TypeInv
  PROVE  /\ Tip \in SegItem /\ segQ \in Seq(SegItem) /\ Len(segQ) <= QueueMax
         /\ puts \in Seq(Segment) /\ puts \in Seq(SegItem) /\ NoSegment \in SegItem
         /\ \A s \in SegItem : s.utt \in Nat
         /\ utt \in Utterances /\ utt \in Nat /\ closed \in Nat /\ turn \in Nat
         /\ Line \in Seq(SegItem) /\ Len(Line) \in Nat /\ Len(Line) # 0
         /\ LastOf(Line) \in SegItem
<1>1. /\ Tip \in SegItem /\ segQ \in Seq(SegItem) /\ Len(segQ) <= QueueMax
      /\ puts \in Seq(Segment) /\ NoSegment \in SegItem
      /\ utt \in Utterances /\ closed \in Nat /\ turn \in Nat
  BY DEF TypeInv, TypeOK, QueueTypeOK, SttTypeOK, SupTypeOK, SegItem, Tip
<1>2. puts \in Seq(SegItem)
  BY <1>1, SeqMonotonic DEF SegItem
<1>3. \A s \in SegItem : s.utt \in Nat
  BY DEF SegItem, Segment, NoSegment, Utterances
<1>4. Line \in Seq(SegItem) /\ Len(Line) \in Nat /\ Len(Line) # 0
  <2>1. PICK x \in SegItem : x = Tip
    BY <1>1
  <2>2. <<x>> \in Seq(SegItem) /\ Len(<<x>>) = 1
    OBVIOUS
  <2>3. segQ \o puts \in Seq(SegItem) /\ Len(segQ \o puts) \in Nat
    BY <1>1, <1>2, ConcatProperties, LenProperties
  <2>4. Line \in Seq(SegItem) /\ Len(Line) = 1 + Len(segQ \o puts)
    <3>1. PICK r : r = segQ \o puts
      OBVIOUS
    <3> QED
      BY <2>1, <2>2, <2>3, <3>1, ConcatProperties DEF Line
  <2> QED
    BY <2>3, <2>4
<1>5. LastOf(Line) \in SegItem
  <2>1. Len(Line) \in 1..Len(Line)
    BY <1>4
  <2> QED
    BY <1>4, <2>1, ElementOfSeq DEF LastOf
<1> QED
  BY <1>1, <1>2, <1>3, <1>4, <1>5 DEF Utterances

(* What is put instead of puts continues the line, if it follows what is queued. *)
LEMMA LineMore ==
  ASSUME TypeInv, Chained(Line), NEW more \in Seq(SegItem),
         more # <<>> => Follows(LastOf(<<Tip>> \o segQ), more[1])
  PROVE  LET line == <<Tip>> \o (segQ \o more)
         IN  /\ Chained(more) => Chained(line)
             /\ LastOf(line)
                  = IF more = <<>> THEN LastOf(<<Tip>> \o segQ) ELSE LastOf(more)
<1>1. PICK x \in SegItem : x = Tip
  BY LineTypes
<1>2. PICK q : q = <<x>> \o segQ
  OBVIOUS
<1>3. <<x>> \in Seq(SegItem) /\ segQ \in Seq(SegItem) /\ puts \in Seq(SegItem)
  BY LineTypes
<1>4. q \in Seq(SegItem) /\ q # <<>>
  <2>1. <<x>> # <<>>
    OBVIOUS
  <2> QED
    BY <1>2, <1>3, <2>1, ConcatProperties, ConcatEqualIffEmpty
<1>5. q \o puts = Line /\ q \o more = <<x>> \o (segQ \o more)
  <2>1. q \o puts = <<x>> \o (segQ \o puts)
    BY <1>2, <1>3, ConcatAssociative
  <2>2. q \o more = <<x>> \o (segQ \o more)
    BY <1>2, <1>3, ConcatAssociative
  <2> QED
    BY <1>1, <2>1, <2>2 DEF Line
<1>6. Chained(q)
  BY <1>3, <1>4, <1>5, ChainedPrefix
<1>7. more # <<>> => Follows(LastOf(q), more[1])
  BY <1>1, <1>2
<1>8. Chained(more) => Chained(q \o more)
  BY <1>4, <1>6, <1>7, ChainedConcat
<1>9. LastOf(q \o more) = IF more = <<>> THEN LastOf(q) ELSE LastOf(more)
  <2>1. /\ Len(q \o more) = Len(q) + Len(more) /\ Len(q) \in Nat /\ Len(more) \in Nat
        /\ \A i \in 1..(Len(q) + Len(more)) :
             (q \o more)[i] = IF i <= Len(q) THEN q[i] ELSE more[i - Len(q)]
        /\ Len(q) # 0 /\ (more = <<>> <=> Len(more) = 0)
    BY <1>4, ConcatProperties, LenProperties, EmptySeq
  <2> QED
    BY <2>1 DEF LastOf
<1> QED
  BY <1>1, <1>2, <1>5, <1>8, <1>9

LEMMA PutLine ==
  ASSUME segQ \in Seq(SegItem), Len(segQ) <= QueueMax, NEW segs \in Seq(SegItem),
         NEW final \in BOOLEAN, NEW u, NEW m, NEW c, PutSegments(segs, final, u, m, c)
  PROVE  /\ segQ' \o puts' = segQ \o segs
         /\ sttPc' \in {"listen", "put"} /\ (sttPc' # "put" => puts' = <<>>)
         /\ (utt' = u /\ closed' = c) \/ (utt' = u + 1 /\ closed' = 0)
<1>1. Len(segs) \in Nat /\ Len(segQ) \in Nat /\ QueueMax \in Nat
  BY LenProperties, QueueMaxAssumption
<1>2. Room \in Nat
  BY <1>1 DEF Room
<1>3. CASE Len(segs) <= Room
  <2>1. /\ segQ' = segQ \o segs /\ puts' = <<>> /\ sttPc' = "listen"
        /\ utt' = (IF final THEN u + 1 ELSE u) /\ closed' = (IF final THEN 0 ELSE c)
    BY <1>3 DEF PutSegments
  <2>2. segQ' \o puts' = segQ \o segs
    <3>1. PICK w : w = segQ \o segs
      OBVIOUS
    <3>2. w \in Seq(SegItem)
      BY <3>1, ConcatProperties
    <3>3. w \o <<>> = w
      BY <3>2, ConcatEmptySeq
    <3> QED
      BY <2>1, <3>1, <3>3
  <2> QED
    BY <2>1, <2>2
<1>4. CASE ~(Len(segs) <= Room)
  <2>1. PICK a : a = SubSeq(segs, 1, Room)
    OBVIOUS
  <2>2. PICK b : b = SubSeq(segs, Room + 1, Len(segs))
    OBVIOUS
  <2>3. /\ segQ' = segQ \o a /\ puts' = b /\ sttPc' = "put" /\ utt' = u /\ closed' = c
    BY <1>4, <2>1, <2>2 DEF PutSegments
  <2>4. a \in Seq(SegItem) /\ b \in Seq(SegItem)
    <3>1. Room <= Len(segs)
      BY <1>1, <1>2, <1>4
    <3> QED
      BY <1>2, <2>1, <2>2, <3>1, SubSeqOrder
  <2>5. a \o b = segs
    <3>1. /\ 1 \in 1..(Len(segs) + 1) /\ Room \in (1 - 1)..Len(segs)
          /\ Len(segs) \in Room..Len(segs)
      BY <1>1, <1>2, <1>4
    <3>2. a \o b = SubSeq(segs, 1, Len(segs))
      BY <2>1, <2>2, <3>1, ConcatAdjacentSubSeq
    <3> QED
      BY <3>2, SubSeqFull
  <2>6. (segQ \o a) \o b = segQ \o (a \o b)
    BY <2>4, ConcatAssociative
  <2> QED
    BY <2>3, <2>5, <2>6
<1> QED
  BY <1>3, <1>4

LEMMA UpToNext ==
  ASSUME NEW s \in SegItem, NEW u \in Nat, NEW c, UpTo(s, u, c)
  PROVE  UpTo(s, u + 1, 0)
<1>1. s.utt \in Nat
  BY DEF SegItem, Segment, NoSegment, Utterances
<1> QED
  BY <1>1 DEF UpTo

(* A hypothesis is kept where the last one ended; no roll is owed. *)
LEMMA KeepHypothesisGap ==
  ASSUME TypeInv, GapInv, NEW final \in BOOLEAN, KeepHypothesis(final)
  PROVE  GapInv'
<1>1. PICK m \in 0..MaxTokens :
        \E segs \in Tilings(RolledUtt, turn, RolledClosed, m) :
          PutSegments(segs, final, RolledUtt, m, EndOf(segs, RolledClosed))
  BY DEF KeepHypothesis
<1>2. PICK segs \in Tilings(RolledUtt, turn, RolledClosed, m) :
        PutSegments(segs, final, RolledUtt, m, EndOf(segs, RolledClosed))
  BY <1>1
<1>3. /\ sttPc = "listen" /\ rollDone' = rollRequests /\ staleTurns' = RolledStale
      /\ UNCHANGED <<translated, cur, supPc, rollRequests, abandoned, hitTurns>>
  BY DEF KeepHypothesis, HypothesisArrives, beyondStt, supVars, workVars, rollVars
<1>4. m \in Nat /\ RolledUtt \in Utterances /\ RolledClosed \in Nat /\ turn \in Nat
  BY BoundsAssumption, RolledTypes
<1>5. /\ segs \in Seq(Segment) /\ segs \in Seq(SegItem) /\ Chained(segs)
      /\ segs # <<>> => /\ segs[1].lo = RolledClosed /\ segs[1].utt = RolledUtt
                        /\ LastOf(segs).utt = RolledUtt
                        /\ LastOf(segs).hi = EndOf(segs, RolledClosed)
  <2>1. segs \in Seq(Segment)
    BY <1>4, TilingsProperties
  <2>2. segs \in Seq(SegItem)
    BY <2>1, SeqMonotonic DEF SegItem
  <2> QED
    BY <1>4, <2>1, <2>2, TilingsChained
<1>6. /\ segQ' \o puts' = segQ \o segs
      /\ sttPc' \in {"listen", "put"} /\ (sttPc' # "put" => puts' = <<>>)
      /\ \/ utt' = RolledUtt /\ closed' = EndOf(segs, RolledClosed)
         \/ utt' = RolledUtt + 1 /\ closed' = 0
  BY <1>2, <1>5, LineTypes, PutLine
<1>7. SUFFICES ASSUME hitTurns = {} PROVE Gapless'
  BY <1>3, <1>6 DEF GapInv
<1>8. Gapless /\ puts = <<>>
  BY <1>3, <1>7 DEF GapInv
<1>9. RolledUtt = utt /\ RolledClosed = closed /\ RolledStale = staleTurns /\ Calm'
  <2>1. rollDone = 0 /\ rollRequests = 0 /\ utt \in Nat
    BY <1>8, LineTypes DEF Gapless, Calm
  <2>2. ~RollsPending
    BY <2>1 DEF RollsPending
  <2> QED
    BY <1>3, <1>8, <2>1, <2>2 DEF RolledUtt, RolledClosed, RolledStale, Gapless, Calm
<1>10. Tip' = Tip
  BY <1>3 DEF Tip
<1>11. ASSUME supPc \notin SupEnding
       PROVE  Chained(Line)' /\ UpTo(LastOf(Line), utt, closed)'
  <2>1. Chained(Line) /\ UpTo(LastOf(Line), utt, closed)
    BY <1>3, <1>8, <1>11 DEF Gapless
  <2>2. Line = <<Tip>> \o segQ
    BY <1>8, LineTypes, ConcatEmptySeq DEF Line
  <2>3. segs # <<>> => Follows(LastOf(Line), segs[1])
    BY <1>5, <1>9, <2>1 DEF UpTo, Follows
  <2>4. PICK line : line = <<Tip>> \o (segQ \o segs)
    OBVIOUS
  <2>5. Line' = line
    BY <1>6, <1>10, <2>4 DEF Line
  <2>6. Chained(line) /\ LastOf(line) = IF segs = <<>> THEN LastOf(Line) ELSE LastOf(segs)
    BY <1>5, <2>1, <2>2, <2>3, <2>4, LineMore
  <2>7. LastOf(line) \in SegItem /\ utt \in Nat
    <3>1. segs # <<>> => LastOf(segs) \in SegItem
      <4>1. segs # <<>> => Len(segs) \in 1..Len(segs)
        BY <1>5, LenProperties, EmptySeq
      <4> QED
        BY <1>5, <4>1, ElementOfSeq DEF LastOf
    <3> QED
      BY <2>6, <3>1, LineTypes
  <2>8. UpTo(LastOf(line), utt, EndOf(segs, closed))
    <3>1. segs = <<>> => EndOf(segs, closed) = closed
      BY DEF EndOf
    <3> QED
      BY <1>5, <1>9, <2>1, <2>6, <3>1 DEF UpTo
  <2>9. UpTo(LastOf(line), utt', closed')
    BY <1>6, <1>9, <2>7, <2>8, UpToNext
  <2> QED
    BY <2>5, <2>6, <2>9
<1>12. (supPc = "got" => Follows(translated, cur))'
  BY <1>3, <1>8 DEF Gapless
<1> QED
  BY <1>3, <1>9, <1>11, <1>12 DEF Gapless

(* Without a roll no hypothesis is dropped. *)
LEMMA DropHypothesisGap ==
  ASSUME TypeInv, GapInv, NEW final \in BOOLEAN, DropHypothesis(final)
  PROVE  GapInv'
<1>1. /\ sttPc = "listen" /\ IsStale(final) /\ UNCHANGED <<sttPc, puts, hitTurns>>
  BY DEF DropHypothesis, HypothesisArrives, beyondStt, supVars, rollVars
<1>2. hitTurns # {}
  <2> SUFFICES ASSUME hitTurns = {} PROVE FALSE
    OBVIOUS
  <2>1. rollDone = 0 /\ rollRequests = 0 /\ staleTurns = {}
    BY DEF GapInv, Gapless, Calm
  <2>2. ~RollsPending
    BY <2>1 DEF RollsPending
  <2> QED
    BY <1>1, <2>1, <2>2 DEF IsStale, RolledStale
<1> QED
  BY <1>1, <1>2 DEF GapInv

LEMMA ResumePutGap ==
  ASSUME TypeInv, GapInv, ResumePut
  PROVE  GapInv'
<1>1. /\ sttPc = "put" /\ PutSegments(puts, ending, utt, committed, closed)
      /\ UNCHANGED <<translated, cur, supPc, rollRequests, abandoned, hitTurns, staleTurns,
                     rollDone>>
  BY DEF ResumePut, beyondStt, supVars, workVars, rollVars
<1>2. ending \in BOOLEAN
  BY DEF TypeInv, TypeOK, SttTypeOK
<1>3. /\ segQ' \o puts' = segQ \o puts
      /\ sttPc' \in {"listen", "put"} /\ (sttPc' # "put" => puts' = <<>>)
      /\ (utt' = utt /\ closed' = closed) \/ (utt' = utt + 1 /\ closed' = 0)
  BY <1>1, <1>2, LineTypes, PutLine
<1>4. Tip' = Tip /\ Line' = Line
  BY <1>1, <1>3 DEF Tip, Line
<1>5. UpTo(LastOf(Line), utt, closed) => UpTo(LastOf(Line), utt', closed')
  BY <1>3, LineTypes, UpToNext
<1>6. LastOf(Line)' = LastOf(Line)
  BY <1>4 DEF LastOf
<1>7. ASSUME Gapless PROVE Gapless'
  <2>1. Calm' /\ (supPc' = "got" => Follows(translated', cur'))
    BY <1>1, <1>7 DEF Gapless, Calm
  <2>2. supPc \notin SupEnding => Chained(Line) /\ UpTo(LastOf(Line), utt', closed')
    BY <1>1, <1>5, <1>7 DEF Gapless
  <2> QED
    BY <1>1, <1>4, <1>6, <2>1, <2>2 DEF Gapless
<1> QED
  BY <1>1, <1>3, <1>7 DEF GapInv

(* A sentinel, or nothing, comes after what is queued, and nothing after it. *)
LEMMA SentinelGap ==
  ASSUME TypeInv, GapInv, PutSentinel \/ UNCHANGED segQ, puts' = <<>>,
         sttPc' \in {"close", "done"},
         UNCHANGED <<translated, cur, rollRequests, rollDone, abandoned, staleTurns,
                     hitTurns>>,
         supPc' = supPc \/ supPc' \in SupEnding
  PROVE  GapInv'
<1>1. segQ' = Append(segQ, NoSegment) \/ segQ' = segQ
  BY DEF PutSentinel
<1>2. ASSUME Gapless PROVE Gapless'
  <2>1. Calm' /\ (supPc' = "got" => Follows(translated', cur'))
    BY <1>2 DEF Gapless, Calm, SupEnding
  <2>2. ASSUME supPc' \notin SupEnding PROVE Chained(Line)'
    <3>1. Chained(Line) /\ Tip' = Tip
      BY <1>2, <2>2 DEF Gapless, Tip
    <3>2. PICK more \in Seq(SegItem) : more \in {<<>>, <<NoSegment>>} /\ segQ' = segQ \o more
      <4>1. <<>> \in Seq(SegItem) /\ <<NoSegment>> \in Seq(SegItem)
        BY LineTypes
      <4>2. segQ \o <<>> = segQ /\ Append(segQ, NoSegment) = segQ \o <<NoSegment>>
        BY LineTypes, ConcatEmptySeq, AppendIsConcat
      <4> QED
        BY <1>1, <4>1, <4>2
    <3>3. Chained(more) /\ (more # <<>> => Follows(LastOf(<<Tip>> \o segQ), more[1]))
      BY <3>2 DEF Chained, Follows
    <3>4. PICK line : line = <<Tip>> \o (segQ \o more)
      OBVIOUS
    <3>5. Chained(line)
      BY <3>1, <3>3, <3>4, LineMore
    <3>6. segQ' \o puts' = segQ \o more
      <4>1. segQ \o more \in Seq(SegItem)
        BY LineTypes, ConcatProperties
      <4> QED
        BY <3>2, <4>1, ConcatEmptySeq
    <3>7. Line' = line
      BY <3>1, <3>4, <3>6 DEF Line
    <3> QED
      BY <3>5, <3>7
  <2> QED
    BY <2>1, <2>2 DEF Gapless
<1> QED
  BY <1>2 DEF GapInv

(* The supervisor takes the first segment of the line. *)
LEMMA TakeSegmentGap ==
  ASSUME TypeInv, GapInv, TakeSegment
  PROVE  GapInv'
<1>1. /\ segQ # <<>> /\ cur' = Head(segQ) /\ segQ' = Tail(segQ)
      /\ supPc \in {"next", "wait"} /\ supPc' = "got"
      /\ UNCHANGED <<closed, sttPc, puts, utt, translated, rollRequests, rollDone, abandoned,
                     staleTurns, hitTurns>>
  BY DEF TakeSegment, workVars, beyondSup, sttVars, noBargeIn, rollVars
<1>2. ASSUME Gapless PROVE Gapless'
  <2>1. PICK x \in SegItem : x = translated
    BY DEF TypeInv, TypeOK, SupTypeOK, SegItem
  <2>2. Tip = x /\ Tip' = Head(segQ)
    BY <1>1, <2>1 DEF Tip
  <2>3. /\ Chained(Line)
        /\ sttPc \in {"listen", "put"} => UpTo(LastOf(Line), utt, closed)
    BY <1>1, <1>2 DEF Gapless, SupEnding
  <2>4. PICK rest : rest = <<Head(segQ)>> \o (Tail(segQ) \o puts)
    OBVIOUS
  <2>5. Line' = rest
    BY <1>1, <2>2, <2>4 DEF Line
  <2>6. Line = <<x>> \o (segQ \o puts)
    BY <2>2 DEF Line
  <2>7. Follows(x, Head(segQ)) /\ Chained(rest) /\ LastOf(rest) = LastOf(Line)
    BY <1>1, <2>3, <2>4, <2>6, LineTypes, ChainedTail
  <2>8. Calm' /\ (supPc' = "got" => Follows(translated', cur'))
    BY <1>1, <1>2, <2>1, <2>7 DEF Gapless, Calm
  <2>9. LastOf(Line)' = LastOf(Line) /\ Chained(Line)'
    BY <2>5, <2>7
  <2> QED
    BY <1>1, <2>3, <2>8, <2>9 DEF Gapless
<1> QED
  BY <1>1, <1>2 DEF GapInv

(* A step that leaves the line alone; a segment in hand may go to MT. *)
LEMMA GapFrame ==
  ASSUME GapInv,
         UNCHANGED <<closed, sttPc, puts, utt, cur, segQ, rollRequests, rollDone, abandoned,
                     staleTurns, hitTurns>>,
         supPc' \in SupEnding \/ supPc \notin SupEnding,
         supPc' \notin {"cancelling", "stopping"} \/ supPc' = supPc,
         \/ translated' = translated /\ (supPc' = "got" <=> supPc = "got")
         \/ translated' = translated /\ supPc' \in SupEnding
         \/ supPc = "got" /\ translated' = cur /\ supPc' # "got"
  PROVE  GapInv'
<1>1. ASSUME Gapless PROVE Gapless'
  <2>1. Calm'
    BY <1>1 DEF Gapless, Calm
  <2>2. supPc' = "got" => Follows(translated', cur')
    BY <1>1 DEF Gapless, SupEnding
  <2>3. ASSUME supPc' \notin SupEnding
        PROVE  Chained(Line)' /\ LastOf(Line)' = LastOf(Line)
    <3>1. Tip' = Tip
      BY <2>3 DEF Tip
    <3>2. Line' = Line
      BY <3>1 DEF Line
    <3>3. Chained(Line)
      BY <1>1, <2>3 DEF Gapless
    <3> QED
      BY <3>2, <3>3 DEF LastOf
  <2> QED
    BY <1>1, <2>1, <2>2, <2>3 DEF Gapless
<1> QED
  BY <1>1 DEF GapInv

(* An interrupt that is acted on ends the promise. *)
LEMMA SupervisorGap ==
  ASSUME TypeInv, GapInv, SupervisorStep \/ CancelSession
  PROVE  GapInv'
<1>1. CASE SupervisorFails \/ CancelSession
  <2>1. /\ AbortGroup /\ UNCHANGED <<translated, cur, rollRequests, abandoned, hitTurns>>
        /\ supPc' = supPc \/ supPc' \in SupEnding
    BY <1>1 DEF SupervisorFails, CancelSession, SupervisorRaises, rollVars, SupEnding
  <2>2. CASE aborting
    <3>1. UNCHANGED <<closed, sttPc, puts, utt, segQ, rollDone, staleTurns>>
      BY <2>1, <2>2 DEF AbortGroup, sttVars
    <3>2. /\ supPc' \in SupEnding \/ supPc \notin SupEnding
          /\ supPc' \notin {"cancelling", "stopping"} \/ supPc' = supPc
          /\ (supPc' = "got" <=> supPc = "got") \/ supPc' \in SupEnding
      BY <2>1 DEF SupEnding
    <3> QED
      BY <2>1, <3>1, <3>2, GapFrame
  <2>3. CASE ~aborting
    <3>1. /\ PutSentinel \/ UNCHANGED segQ
          /\ puts' = <<>> /\ UNCHANGED <<rollDone, staleTurns>>
          /\ sttPc' \in {"close", "done"}
      BY <2>1, <2>3 DEF AbortGroup, AbortSttStage, PutSentinel, TypeInv, TypeOK, SttTypeOK,
         SttPcs
    <3> QED
      BY <2>1, <3>1, SentinelGap
  <2> QED
    BY <2>2, <2>3
<1>2. CASE BargeInWhileIdle \/ CancelWork
  <2>1. hitTurns' # {} /\ UNCHANGED <<sttPc, puts>>
    BY <1>2 DEF BargeInWhileIdle, CancelWork, beyondSup, sttVars
  <2> QED
    BY <2>1 DEF GapInv
<1>3. CASE BargeInOnWork \/ EndBargeIn \/ DropSegment \/ \E p \in stops : StopGeneration(p)
  <2>1. /\ supPc \in {"cancelling", "stopping"} \/ cur.utt \in abandoned
        /\ UNCHANGED <<sttPc, puts, hitTurns>>
    BY <1>3 DEF BargeInOnWork, EndBargeIn, DropSegment, StopGeneration, beyondSup, sttVars,
       noBargeIn, rollVars
  <2>2. hitTurns # {}
    BY <2>1 DEF GapInv, Gapless, Calm
  <2> QED
    BY <2>1, <2>2 DEF GapInv
<1>4. CASE \/ WaitForSegment \/ CancelGet \/ IgnoreOnset \/ StartWork \/ CloseTtsQueue
           \/ FinishSegment \/ SupervisorEnds
  <2>1. UNCHANGED <<closed, sttPc, puts, utt, cur, segQ, rollRequests, rollDone, abandoned,
                    staleTurns, hitTurns>>
    BY <1>4
    DEF WaitForSegment, CancelGet, IgnoreOnset, StartWork, CloseTtsQueue, FinishSegment,
        SupervisorEnds, beyondSup, sttVars, noBargeIn, rollVars
  <2>2. /\ supPc' \in SupEnding \/ supPc \notin SupEnding
        /\ supPc' \notin {"cancelling", "stopping"}
        /\ \/ translated' = translated /\ (supPc' = "got" <=> supPc = "got")
           \/ translated' = translated /\ supPc' \in SupEnding
           \/ supPc = "got" /\ translated' = cur /\ supPc' # "got"
    BY <1>4
    DEF WaitForSegment, CancelGet, IgnoreOnset, StartWork, CloseTtsQueue, FinishSegment,
        SupervisorEnds, workVars, SupEnding
  <2> QED
    BY <2>1, <2>2, GapFrame
<1> QED
  BY <1>1, <1>2, <1>3, <1>4, TakeSegmentGap DEF SupervisorStep

LEMMA GapNext == TypeInv /\ GapInv /\ [Next]_vars => GapInv'
<1> SUFFICES ASSUME TypeInv, GapInv, [Next]_vars PROVE GapInv'
  OBVIOUS
<1>1. CASE SttStep
  <2>1. CASE StreamEnds \/ ResumePutSentinel
    <3>1. /\ PutSentinel /\ sttPc # "put" /\ UNCHANGED puts
          /\ UNCHANGED <<translated, cur, rollRequests, rollDone, abandoned, staleTurns,
                         hitTurns, supPc>>
      BY <2>1 DEF StreamEnds, ResumePutSentinel, beyondStt, supVars, workVars, rollVars
    <3>2. puts' = <<>> /\ sttPc' \in {"close", "done"}
      BY <3>1 DEF GapInv, PutSentinel
    <3> QED
      BY <3>1, <3>2, SentinelGap
  <2> QED
    BY <1>1, <2>1, DropHypothesisGap, KeepHypothesisGap, ResumePutGap DEF SttStep
<1>2. CASE SupervisorStep \/ CancelSession
  BY <1>2, SupervisorGap
<1>3. CASE \/ WorkStep \/ FailWork \/ PlaybackStep \/ FailPlayback \/ SinkStep
           \/ BargeStep \/ UNCHANGED vars
  <2>1. UNCHANGED <<closed, sttPc, puts, utt, cur, segQ, rollRequests, rollDone, abandoned,
                    staleTurns, hitTurns, translated, supPc>>
    <3>1. CASE WorkStep \/ FailWork
      BY <3>1 DEF WorkStep, FailWork, YieldChunk, ResumePutChunk, EndWork, beyondWork,
         supVars, sttVars, rollVars
    <3>2. CASE PlaybackStep \/ FailPlayback
      BY <3>2 DEF PlaybackStep, FailPlayback, PlaybackEof, PlayChunk, ResumeSchedule,
         FinishDrain, beyondPlay, supVars, sttVars, workVars, rollVars
    <3>3. CASE SinkStep
      BY <3>3 DEF SinkStep, Sound, Quiet, beyondSink, supVars, sttVars, workVars, rollVars
    <3>4. CASE BargeStep \/ UNCHANGED vars
      BY <3>4 DEF BargeStep, Onset, BargeStreamEnds, beyondBarge, vars, supVars, sttVars,
         workVars, rollVars
    <3> QED
      BY <1>3, <3>1, <3>2, <3>3, <3>4
  <2> QED
    BY <2>1, GapFrame
<1> QED
  BY <1>1, <1>2, <1>3 DEF Next, FaultStep, Finish

LEMMA GapInit == Init => GapInv
<1> SUFFICES ASSUME Init PROVE GapInv
  OBVIOUS
<1>1. /\ segQ = <<>> /\ puts = <<>> /\ translated = NoSegment /\ supPc = "next"
      /\ sttPc = "listen" /\ utt = 1 /\ closed = 0
      /\ rollRequests = 0 /\ rollDone = 0 /\ abandoned = {} /\ staleTurns = {}
  BY DEF Init
<1>2. Line = <<NoSegment>>
  BY <1>1 DEF Line, Tip
<1>3. Chained(Line) /\ LastOf(Line) = NoSegment
  BY <1>2 DEF Chained, LastOf
<1>4. UpTo(NoSegment, 1, 0)
  BY DEF UpTo, NoSegment
<1> QED
  BY <1>1, <1>3, <1>4 DEF GapInv, Gapless, Calm

(***************************************************************************)
(* Whatever stalls and whatever fails, as long as no interrupt has been    *)
(* acted on every segment given to MT begins where the last one ended, or  *)
(* at the beginning of a new utterance (pipeline.py stages 1 and 2).       *)
(***************************************************************************)
THEOREM NothingSkipped == Spec => NoGapWithoutBargeIn
<1>1. Init => TypeInv /\ GapInv
  BY TypesInit, GapInit
<1>2. (TypeInv /\ GapInv) /\ [Next]_vars => (TypeInv /\ GapInv)'
  BY TypesNext, GapNext
<1>3. (TypeInv /\ GapInv) /\ [Next]_vars =>
        [translated' # translated /\ hitTurns = {} =>
           translated'.lo = IF translated.utt = translated'.utt THEN translated.hi ELSE 0]_vars
  <2> SUFFICES ASSUME TypeInv, GapInv, [Next]_vars, translated' # translated, hitTurns = {}
               PROVE  translated'.lo
                        = IF translated.utt = translated'.utt THEN translated.hi ELSE 0
    OBVIOUS
  <2>1. supPc = "got" /\ translated' = cur /\ cur # NoSegment
    BY OnlyWorkTranslates DEF StartWork
  <2>2. Follows(translated, cur)
    BY <2>1 DEF GapInv, Gapless
  <2> QED
    BY <2>1, <2>2 DEF Follows
<1> QED
  BY <1>1, <1>2, <1>3, PTL DEF Spec, NoGapWithoutBargeIn

---------------------------------------------------------------------------
(***************************************************************************)
(* The sink.  Handles are presented in the order in which they were        *)
(* accepted, one at a time.                                                *)
(***************************************************************************)
LedgerInv ==
  /\ \A h \in outstanding : h.order < accepted
  /\ \A h, o \in outstanding : h.order = o.order => h = o
  /\ \A h, o \in outstanding : h.sounding => h.order <= o.order

LEMMA LedgerShrinks ==
  ASSUME LedgerInv, outstanding' \subseteq outstanding, accepted' = accepted
  PROVE  LedgerInv'
BY DEF LedgerInv

LEMMA AdmitLedger ==
  ASSUME TypeInv, LedgerInv, NEW g, NEW u, Admit(g, u)
  PROVE  LedgerInv'
<1>1. accepted \in Nat /\ \A h \in outstanding : h.order \in Nat
  BY DEF TypeInv, TypeOK, SinkTypeOK, Handle
<1>2. CASE g \in invalidated
  BY <1>2, LedgerShrinks DEF Admit
<1>3. CASE g \notin invalidated
  <2>1. PICK new : new = [order |-> accepted, gen |-> g, unit |-> u, sounding |-> FALSE]
    OBVIOUS
  <2>2. /\ outstanding' = outstanding \cup {new} /\ accepted' = accepted + 1
        /\ new.order = accepted /\ ~new.sounding
    BY <1>3, <2>1 DEF Admit
  <2>3. \A h \in outstanding : h.order < accepted + 1 /\ h.order < new.order
    BY <1>1, <2>2 DEF LedgerInv
  <2>4. \A h \in outstanding' : h.order < accepted'
    BY <1>1, <2>2, <2>3
  <2>5. \A h, o \in outstanding' : h.order = o.order => h = o
    BY <1>1, <2>2, <2>3 DEF LedgerInv
  <2>6. \A h, o \in outstanding' : h.sounding => h.order <= o.order
    BY <1>1, <2>2, <2>3 DEF LedgerInv
  <2> QED
    BY <2>4, <2>5, <2>6 DEF LedgerInv
<1> QED
  BY <1>2, <1>3

LEMMA SoundLedger ==
  ASSUME TypeInv, LedgerInv, NEW h \in outstanding, Sound(h)
  PROVE  LedgerInv'
<1>1. PICK new : new = [h EXCEPT !.sounding = TRUE]
  OBVIOUS
<1>2. /\ outstanding' = (outstanding \ {h}) \cup {new} /\ accepted' = accepted
      /\ \A o \in outstanding : h.order <= o.order
  BY <1>1 DEF Sound, StartSounding
<1>3. new.order = h.order /\ \A o \in outstanding : o.order \in Nat
  BY <1>1 DEF TypeInv, TypeOK, SinkTypeOK, Handle
<1>4. \A o \in outstanding' : o.order < accepted'
  BY <1>2, <1>3 DEF LedgerInv
<1>5. \A o, q \in outstanding' : o.order = q.order => o = q
  BY <1>2, <1>3 DEF LedgerInv
<1>6. \A o, q \in outstanding' : o.sounding => o.order <= q.order
  BY <1>2, <1>3 DEF LedgerInv
<1> QED
  BY <1>4, <1>5, <1>6 DEF LedgerInv

(* What a step does to the sink. *)
LEMMA SinkChanges ==
  ASSUME [Next]_vars
  PROVE  \/ outstanding' \subseteq outstanding /\ accepted' = accepted
         \/ \E g, u : Admit(g, u)
         \/ \E h \in outstanding : Sound(h)
<1>1. CASE SttStep \/ BargeStep \/ UNCHANGED vars
  BY <1>1 DEF SttStep, DropHypothesis, KeepHypothesis, ResumePut, StreamEnds,
     ResumePutSentinel, BargeStep, Onset, BargeStreamEnds, beyondStt, beyondBarge, vars,
     ledgerVars
<1>2. CASE SupervisorStep
  BY <1>2
  DEF SupervisorStep, TakeSegment, WaitForSegment, CancelGet, BargeInWhileIdle, IgnoreOnset,
      DropSegment, StartWork, CloseTtsQueue, FinishSegment, CancelWork, BargeInOnWork,
      StopGeneration, Stop, EndBargeIn, SupervisorEnds, SupervisorFails, noBargeIn, ledgerVars
<1>3. CASE WorkStep \/ FaultStep
  BY <1>3 DEF WorkStep, YieldChunk, ResumePutChunk, EndWork, FaultStep, CancelSession,
     FailWork, FailPlayback, beyondWork, ledgerVars
<1>4. CASE PlaybackStep
  BY <1>4 DEF PlaybackStep, PlaybackEof, PlayChunk, ResumeSchedule, FinishDrain, Schedule,
     Resume, ledgerVars
<1>5. CASE SinkStep
  BY <1>5 DEF SinkStep, Quiet, FinishSounding
<1> QED
  BY <1>1, <1>2, <1>3, <1>4, <1>5 DEF Next, Finish

LEMMA LedgerNext == TypeInv /\ LedgerInv /\ [Next]_vars => LedgerInv'
BY SinkChanges, LedgerShrinks, AdmitLedger, SoundLedger

---------------------------------------------------------------------------
(***************************************************************************)
(* The chunks.  They were synthesized of the segment given to MT last, or  *)
(* of one before it; those in the sink come before a blocked one, and that *)
(* before those queued; what was heard comes before all that is not        *)
(* sounding yet.                                                           *)
(***************************************************************************)
ChunkOrder ==
  {p \in TtsItem \X TtsItem : p[1] = NoChunk \/ p[2] = NoChunk \/ Before(p[1], p[2])}

Yielded(x) ==
  /\ translated # NoSegment
  /\ (x.seg = translated /\ x.k < nextChunk) \/ After(x.seg, translated)

SynthesisInv ==
  /\ supPc = "work" => translated = cur
  /\ \A x \in Items(ttsQ) \cup {heard} : x # NoChunk => Yielded(x)
  /\ \A h \in outstanding \cup calls : Yielded(h.unit)

PlaybackOrder ==
  /\ InOrder(ttsQ, ChunkOrder)
  /\ \A h \in outstanding \cup calls, x \in Items(ttsQ) : <<h.unit, x>> \in ChunkOrder
  /\ \A h \in outstanding, c \in calls : <<h.unit, c.unit>> \in ChunkOrder
  /\ \A h, o \in outstanding : h.order < o.order => <<h.unit, o.unit>> \in ChunkOrder

HeardOrder ==
  /\ \A x \in Items(ttsQ) : <<heard, x>> \in ChunkOrder
  /\ \A h \in outstanding : ~h.sounding => <<heard, h.unit>> \in ChunkOrder
  /\ \A c \in calls : <<heard, c.unit>> \in ChunkOrder

ChunksInv == SynthesisInv /\ PlaybackOrder /\ HeardOrder

LEMMA BeforeInOrder ==
  ASSUME NEW x \in Chunk, NEW y \in Chunk
  PROVE  <<x, y>> \in ChunkOrder <=> Before(x, y)
<1>1. x # NoChunk /\ y # NoChunk
  BY DEF Chunk, NoChunk, Segment, NoSegment, Utterances
<1> QED
  BY <1>1 DEF ChunkOrder, TtsItem

LEMMA NoChunkInOrder ==
  ASSUME NEW x \in TtsItem
  PROVE  <<x, NoChunk>> \in ChunkOrder /\ <<NoChunk, x>> \in ChunkOrder
BY DEF ChunkOrder, TtsItem

(* Where chunks are. *)
LEMMA ChunkFacts ==
  ASSUME TypeInv
  PROVE  /\ ttsQ \in Seq(TtsItem) /\ Items(ttsQ) \subseteq TtsItem
         /\ heard \in TtsItem /\ NoChunk \in TtsItem /\ Chunk \subseteq TtsItem
         /\ \A h \in outstanding \cup calls : h.unit \in Chunk
         /\ \A h \in outstanding : h.order \in Nat
         /\ accepted \in Nat /\ nextChunk \in Nat
         /\ \A x \in Chunk : x # NoChunk /\ x.seg \in Segment /\ x.k \in Nat
<1>1. ttsQ \in Seq(TtsItem) /\ heard \in TtsItem /\ NoChunk \in TtsItem /\ Chunk \subseteq TtsItem
  BY DEF TypeInv, TypeOK, QueueTypeOK, TtsItem
<1>2. \A i \in 1..Len(ttsQ) : ttsQ[i] \in TtsItem
  BY <1>1, ElementOfSeq
<1>3. Items(ttsQ) \subseteq TtsItem
  BY <1>2 DEF Items
<1>4. /\ \A h \in outstanding \cup calls : h.unit \in Chunk
      /\ \A h \in outstanding : h.order \in Nat
      /\ accepted \in Nat /\ nextChunk \in Nat
  BY DEF TypeInv, TypeOK, SinkTypeOK, SupTypeOK, Handle, Call
<1>5. \A x \in Chunk : x # NoChunk /\ x.seg \in Segment /\ x.k \in Nat
  BY DEF Chunk, NoChunk, Segment, NoSegment, Utterances
<1> QED
  BY <1>1, <1>3, <1>4, <1>5

(* Steps that only let go of chunks, or add the sentinel. *)
LEMMA ChunksShrink ==
  ASSUME TypeInv, ChunksInv, UNCHANGED <<translated, nextChunk, heard>>,
         supPc' = "work" => supPc = "work" /\ cur' = cur,
         Items(ttsQ') \subseteq Items(ttsQ) \cup {NoChunk}, InOrder(ttsQ', ChunkOrder),
         outstanding' \subseteq outstanding, calls' \subseteq calls
  PROVE  ChunksInv'
<1>1. SynthesisInv'
  <2>1. /\ \A x \in Items(ttsQ') \cup {heard'} : x # NoChunk => Yielded(x)
        /\ \A h \in outstanding' \cup calls' : Yielded(h.unit)
    BY DEF ChunksInv, SynthesisInv
  <2>2. \A x : Yielded(x)' <=> Yielded(x)
    BY DEF Yielded
  <2>3. /\ \A x \in Items(ttsQ') \cup {heard'} : x # NoChunk => Yielded(x)'
        /\ \A h \in outstanding' \cup calls' : Yielded(h.unit)'
    BY <2>1, <2>2
  <2>4. supPc' = "work" => translated' = cur'
    BY DEF ChunksInv, SynthesisInv
  <2> QED
    BY <2>3, <2>4 DEF SynthesisInv
<1>2. \A y \in TtsItem : <<y, NoChunk>> \in ChunkOrder
  BY NoChunkInOrder
<1>3. PlaybackOrder'
  <2>1. \A h \in outstanding' \cup calls', x \in Items(ttsQ') : <<h.unit, x>> \in ChunkOrder
    <3>1. \A h \in outstanding' \cup calls' : h.unit \in TtsItem
      BY ChunkFacts
    <3> QED
      BY <1>2, <3>1 DEF ChunksInv, PlaybackOrder
  <2> QED
    BY <2>1 DEF ChunksInv, PlaybackOrder
<1>4. HeardOrder'
  BY <1>2, ChunkFacts DEF ChunksInv, HeardOrder
<1> QED
  BY <1>1, <1>3, <1>4 DEF ChunksInv

(* MT gets a segment after that of every chunk there is. *)
LEMMA StartWorkChunks ==
  ASSUME TypeInv, SegmentsInv, ChunksInv, StartWork
  PROVE  ChunksInv'
<1>1. /\ translated' = cur /\ cur' = cur /\ cur # NoSegment /\ nextChunk' = 1
      /\ UNCHANGED <<ttsQ, heard, outstanding, calls>>
  BY DEF StartWork, noBargeIn, ledgerVars, beyondSup
<1>2. cur \in Segment /\ <<translated, cur>> \in SegmentOrder /\ translated \in SegItem
  BY <1>1 DEF StartWork, SegmentsInv, TypeInv, TypeOK, SupTypeOK, SegItem
<1>3. ASSUME NEW x \in Chunk, Yielded(x) PROVE Yielded(x)'
  <2>1. translated \in Segment /\ translated # NoSegment
    BY <1>2, <1>3 DEF Yielded, SegItem
  <2>2. After(translated, cur)
    BY <1>1, <1>2, <2>1 DEF SegmentOrder
  <2>3. translated.lo < translated.hi
    BY <2>1 DEF SegmentsInv
  <2>4. x.seg \in Segment
    BY ChunkFacts
  <2>5. After(x.seg, cur)
    BY <1>2, <1>3, <2>1, <2>2, <2>3, <2>4, AfterTransitive DEF Yielded
  <2> QED
    BY <1>1, <2>5 DEF Yielded
<1>4. SynthesisInv'
  <2>1. \A x \in Items(ttsQ) \cup {heard} : x # NoChunk => x \in Chunk /\ Yielded(x)
    BY ChunkFacts DEF TtsItem, ChunksInv, SynthesisInv
  <2>2. \A h \in outstanding \cup calls : h.unit \in Chunk /\ Yielded(h.unit)
    BY ChunkFacts DEF ChunksInv, SynthesisInv
  <2> QED
    BY <1>1, <1>3, <2>1, <2>2 DEF SynthesisInv
<1>5. PlaybackOrder' /\ HeardOrder'
  BY <1>1 DEF ChunksInv, PlaybackOrder, HeardOrder
<1> QED
  BY <1>4, <1>5 DEF ChunksInv

(* The work task yields the next chunk of that segment. *)
LEMMA SendChunkChunks ==
  ASSUME TypeInv, ChunksInv, supPc = "work", SendChunk, nextChunk' = nextChunk + 1,
         UNCHANGED <<translated, beyondWork>>
  PROVE  ChunksInv'
<1>1. PICK new : new = [seg |-> cur, k |-> nextChunk]
  OBVIOUS
<1>2. /\ ttsQ' = Append(ttsQ, new)
      /\ UNCHANGED <<heard, outstanding, calls, supPc, cur>>
  BY <1>1 DEF SendChunk, beyondWork, supVars, ledgerVars
<1>3. /\ cur = translated /\ cur \in Segment /\ cur # NoSegment /\ nextChunk \in Nat
      /\ new \in Chunk /\ new \in TtsItem /\ new.seg = translated /\ new.k = nextChunk
  <2>1. cur = translated /\ cur \in Segment /\ cur # NoSegment /\ nextChunk \in Nat
    BY DEF TypeInv, TypeOK, SupTypeOK, WorkInHand, ChunksInv, SynthesisInv
  <2> QED
    BY <1>1, <2>1 DEF Chunk, TtsItem
<1>4. ASSUME NEW x \in Chunk, Yielded(x)
      PROVE  <<x, new>> \in ChunkOrder /\ Yielded(x)'
  <2>1. Before(x, new)
    BY <1>3, <1>4 DEF Before, Yielded
  <2>2. x.k \in Nat
    BY ChunkFacts
  <2>3. x.k < nextChunk => x.k < nextChunk + 1
    BY <1>3, <2>2
  <2>4. Yielded(x)'
    BY <1>4, <2>3 DEF Yielded
  <2> QED
    BY <1>3, <2>1, <2>4, BeforeInOrder
<1>5. Yielded(new)'
  BY <1>3 DEF Yielded
<1>6. \A x \in Items(ttsQ) \cup {heard} : <<x, new>> \in ChunkOrder /\ (x # NoChunk => Yielded(x)')
  <2>1. \A x \in Items(ttsQ) \cup {heard} : x # NoChunk => x \in Chunk /\ Yielded(x)
    BY ChunkFacts DEF TtsItem, ChunksInv, SynthesisInv
  <2>2. <<NoChunk, new>> \in ChunkOrder
    BY <1>3, NoChunkInOrder
  <2> QED
    BY <1>4, <2>1, <2>2
<1>7. \A h \in outstanding \cup calls : <<h.unit, new>> \in ChunkOrder /\ Yielded(h.unit)'
  <2>1. \A h \in outstanding \cup calls : h.unit \in Chunk /\ Yielded(h.unit)
    BY ChunkFacts DEF ChunksInv, SynthesisInv
  <2> QED
    BY <1>4, <2>1
<1>8. /\ Items(ttsQ') = Items(ttsQ) \cup {new}
      /\ InOrder(ttsQ', ChunkOrder)
  <2>1. ttsQ \in Seq(TtsItem) /\ InOrder(ttsQ, ChunkOrder)
    BY ChunkFacts DEF ChunksInv, PlaybackOrder
  <2>2. Items(ttsQ) \X {new} \subseteq ChunkOrder
    BY <1>6
  <2> QED
    BY <1>2, <1>3, <2>1, <2>2, AppendOrder
<1>9. SynthesisInv'
  BY <1>2, <1>3, <1>5, <1>6, <1>7, <1>8 DEF SynthesisInv
<1>10. PlaybackOrder'
  BY <1>2, <1>7, <1>8 DEF PlaybackOrder, ChunksInv
<1>11. HeardOrder'
  BY <1>2, <1>6, <1>8 DEF HeardOrder, ChunksInv
<1> QED
  BY <1>9, <1>10, <1>11 DEF ChunksInv

(***************************************************************************)
(* A chunk goes from the queue, or from the one blocked call, to a handle  *)
(* or to a blocked call: it comes after all of the sink, and before all    *)
(* that stays queued.                                                      *)
(***************************************************************************)
LEMMA ScheduleChunks ==
  ASSUME TypeInv, LedgerInv, ChunksInv,
         UNCHANGED <<translated, nextChunk, heard, supPc, cur>>,
         NEW x \in Chunk, NEW g, Yielded(x), <<heard, x>> \in ChunkOrder,
         \A h \in outstanding : <<h.unit, x>> \in ChunkOrder,
         Items(ttsQ') \subseteq Items(ttsQ), InOrder(ttsQ', ChunkOrder),
         \A y \in Items(ttsQ') : <<x, y>> \in ChunkOrder,
         \/ outstanding' = outstanding /\ (\A c \in calls' : c.unit = x)
         \/ Admit(g, x) /\ calls' = {}
  PROVE  ChunksInv'
<1>1. PICK new : new = [order |-> accepted, gen |-> g, unit |-> x, sounding |-> FALSE]
  OBVIOUS
<1>2. /\ new.unit = x /\ new.order = accepted /\ ~new.sounding
      /\ outstanding' \subseteq outstanding \cup {new}
      /\ \A c \in calls' : c.unit = x /\ outstanding' \subseteq outstanding
  BY <1>1 DEF Admit
<1>3. \A y : Yielded(y)' <=> Yielded(y)
  BY DEF Yielded
<1>4. SynthesisInv'
  <2>1. /\ \A y \in Items(ttsQ') \cup {heard'} : y # NoChunk => Yielded(y)'
        /\ \A h \in outstanding' \cup calls' : Yielded(h.unit)'
    BY <1>2, <1>3 DEF ChunksInv, SynthesisInv
  <2> QED
    BY <2>1 DEF ChunksInv, SynthesisInv
<1>5. PlaybackOrder'
  <2>1. \A h \in outstanding' \cup calls', y \in Items(ttsQ') : <<h.unit, y>> \in ChunkOrder
    BY <1>2 DEF ChunksInv, PlaybackOrder
  <2>2. \A h \in outstanding', c \in calls' : <<h.unit, c.unit>> \in ChunkOrder
    BY <1>2
  <2>3. ASSUME NEW h \in outstanding', NEW o \in outstanding', h.order < o.order
        PROVE  <<h.unit, o.unit>> \in ChunkOrder
    <3>1. CASE h \in outstanding
      BY <1>2, <2>3, <3>1 DEF ChunksInv, PlaybackOrder
    <3>2. CASE h \notin outstanding
      <4>1. h = new /\ accepted < o.order
        BY <1>2, <2>3, <3>2
      <4>2. accepted \in Nat /\ \A r \in outstanding : r.order \in Nat /\ r.order < accepted
        BY ChunkFacts DEF LedgerInv
      <4> QED
        BY <1>2, <4>1, <4>2
    <3> QED
      BY <3>1, <3>2
  <2> QED
    BY <2>1, <2>2, <2>3 DEF PlaybackOrder
<1>6. HeardOrder'
  BY <1>2 DEF ChunksInv, HeardOrder
<1> QED
  BY <1>4, <1>5, <1>6 DEF ChunksInv

LEMMA PlayChunkChunks ==
  ASSUME TypeInv, LedgerInv, ChunksInv, OneCaller, PlayChunk
  PROVE  ChunksInv'
<1>1. PICK x : x = Head(ttsQ)
  OBVIOUS
<1>2. /\ ttsQ # <<>> /\ x # NoChunk /\ ttsQ' = Tail(ttsQ) /\ playPc = "get"
      /\ UNCHANGED <<translated, nextChunk, heard, supPc, cur>>
  BY <1>1 DEF PlayChunk, HasChunk, beyondPlay, supVars, workVars
<1>3. /\ x \in Items(ttsQ) /\ Items(ttsQ') \subseteq Items(ttsQ)
      /\ InOrder(ttsQ', ChunkOrder) /\ {x} \X Items(ttsQ') \subseteq ChunkOrder
  <2>1. ttsQ \in Seq(TtsItem) /\ InOrder(ttsQ, ChunkOrder)
    BY ChunkFacts DEF ChunksInv, PlaybackOrder
  <2> QED
    BY <1>1, <1>2, <2>1, TailOrder
<1>4. x \in Chunk /\ Yielded(x) /\ <<heard, x>> \in ChunkOrder
      /\ \A h \in outstanding : <<h.unit, x>> \in ChunkOrder
  BY <1>2, <1>3, ChunkFacts
  DEF TtsItem, ChunksInv, SynthesisInv, PlaybackOrder, HeardOrder
<1>5. CASE UNCHANGED ledgerVars
  BY <1>2, <1>3, <1>5, ChunksShrink DEF ledgerVars
<1>6. CASE Schedule(GenerationOf(x.seg.utt), x)
  <2>1. PICK g : g = GenerationOf(x.seg.utt)
    OBVIOUS
  <2>2. calls = {}
    BY <1>2 DEF OneCaller
  <2>3. \/ outstanding' = outstanding /\ (\A c \in calls' : c.unit = x)
        \/ Admit(g, x) /\ calls' = {}
    BY <1>6, <2>1, <2>2 DEF Schedule
  <2> QED
    BY <1>2, <1>3, <1>4, <2>3, ScheduleChunks
<1> QED
  BY <1>1, <1>5, <1>6 DEF PlayChunk

LEMMA ResumeScheduleChunks ==
  ASSUME TypeInv, LedgerInv, ChunksInv, OneCaller, ResumeSchedule
  PROVE  ChunksInv'
<1>1. PICK c \in calls : Resume(c)
  BY DEF ResumeSchedule
<1>2. UNCHANGED <<translated, nextChunk, heard, supPc, cur, ttsQ>>
  BY DEF ResumeSchedule, beyondPlay, supVars, workVars
<1>3. Admit(c.gen, c.unit) /\ calls' = {}
  BY <1>1 DEF Resume, OneCaller
<1>4. c.unit \in Chunk /\ Yielded(c.unit) /\ <<heard, c.unit>> \in ChunkOrder
      /\ (\A h \in outstanding : <<h.unit, c.unit>> \in ChunkOrder)
      /\ (\A y \in Items(ttsQ') : <<c.unit, y>> \in ChunkOrder)
      /\ InOrder(ttsQ', ChunkOrder) /\ Items(ttsQ') \subseteq Items(ttsQ)
  BY <1>2, ChunkFacts DEF ChunksInv, SynthesisInv, PlaybackOrder, HeardOrder
<1> QED
  BY <1>2, <1>3, <1>4, ScheduleChunks

(* What begins to sound comes before all that is not sounding yet. *)
LEMMA SoundChunks ==
  ASSUME TypeInv, LedgerInv, ChunksInv, NEW h \in outstanding, Sound(h)
  PROVE  ChunksInv'
<1>1. PICK new : new = [h EXCEPT !.sounding = TRUE]
  OBVIOUS
<1>2. /\ outstanding' = (outstanding \ {h}) \cup {new} /\ heard' = h.unit
      /\ \A o \in outstanding : h.order <= o.order
      /\ UNCHANGED <<translated, nextChunk, supPc, cur, ttsQ, calls>>
  BY <1>1 DEF Sound, StartSounding, beyondSink, supVars, workVars
<1>3. new.order = h.order /\ new.unit = h.unit /\ new.sounding = TRUE
  BY <1>1 DEF TypeInv, TypeOK, SinkTypeOK, Handle
<1>4. \A o \in outstanding' : \E r \in outstanding : o.unit = r.unit /\ o.order = r.order
  BY <1>2, <1>3
<1>5. SynthesisInv'
  <2>1. \A x : Yielded(x)' <=> Yielded(x)
    BY <1>2 DEF Yielded
  <2>2. /\ \A x \in Items(ttsQ') \cup {heard'} : x # NoChunk => Yielded(x)'
        /\ \A o \in outstanding' \cup calls' : Yielded(o.unit)'
    BY <1>2, <1>4, <2>1 DEF ChunksInv, SynthesisInv
  <2> QED
    BY <1>2, <2>2 DEF ChunksInv, SynthesisInv
<1>6. PlaybackOrder'
  BY <1>2, <1>4 DEF ChunksInv, PlaybackOrder
<1>7. HeardOrder'
  <2>1. ASSUME NEW o \in outstanding', ~o.sounding PROVE <<heard', o.unit>> \in ChunkOrder
    <3>1. o \in outstanding /\ o # h
      BY <1>2, <1>3, <2>1
    <3>2. h.order < o.order
      BY <1>2, <3>1, ChunkFacts DEF LedgerInv
    <3> QED
      BY <1>2, <3>1, <3>2 DEF ChunksInv, PlaybackOrder
  <2>2. /\ \A x \in Items(ttsQ') : <<heard', x>> \in ChunkOrder
        /\ \A c \in calls' : <<heard', c.unit>> \in ChunkOrder
    BY <1>2 DEF ChunksInv, PlaybackOrder
  <2> QED
    BY <2>1, <2>2 DEF HeardOrder
<1> QED
  BY <1>5, <1>6, <1>7 DEF ChunksInv

(* The queues of chunks that playback, a barge-in or the sentinel leave. *)
LEMMA TtsQueueOrder ==
  ASSUME TypeInv, ChunksInv,
         \/ ttsQ' = ttsQ
         \/ ttsQ # <<>> /\ ttsQ' = Tail(ttsQ)
         \/ ttsQ' = Drain(ttsQ, NoChunk)
         \/ ttsQ' = Append(MakeRoom(ttsQ), NoChunk)
  PROVE  Items(ttsQ') \subseteq Items(ttsQ) \cup {NoChunk} /\ InOrder(ttsQ', ChunkOrder)
<1>1. /\ ttsQ \in Seq(TtsItem) /\ InOrder(ttsQ, ChunkOrder) /\ NoChunk \in TtsItem
      /\ Items(ttsQ) \subseteq TtsItem
  BY ChunkFacts DEF ChunksInv, PlaybackOrder
<1>2. CASE ttsQ' = ttsQ
  BY <1>1, <1>2
<1>3. CASE ttsQ # <<>> /\ ttsQ' = Tail(ttsQ)
  BY <1>1, <1>3, TailOrder
<1>4. CASE ttsQ' = Drain(ttsQ, NoChunk)
  <2>1. ttsQ' \in Seq(TtsItem) /\ \A i \in DOMAIN ttsQ' : ttsQ'[i] = NoChunk
    BY <1>1, <1>4, DrainProperties
  <2>2. \A i \in 1..Len(ttsQ') : ttsQ'[i] = NoChunk
    BY <2>1, LenProperties
  <2>3. <<NoChunk, NoChunk>> \in ChunkOrder
    BY <1>1, NoChunkInOrder
  <2> QED
    BY <2>2, <2>3 DEF Items, InOrder
<1>5. CASE ttsQ' = Append(MakeRoom(ttsQ), NoChunk)
  <2>1. PICK q : q = MakeRoom(ttsQ)
    OBVIOUS
  <2>2. q \in Seq(TtsItem) /\ Items(q) \subseteq Items(ttsQ) /\ InOrder(q, ChunkOrder)
    <3>1. CASE Len(ttsQ) = QueueMax
      <4>1. ttsQ # <<>> /\ q = Tail(ttsQ)
        BY <2>1, <3>1, EmptySeq, QueueMaxAssumption DEF MakeRoom
      <4>2. Tail(ttsQ) \in Seq(TtsItem)
        BY <1>1, <4>1, HeadTailProperties
      <4> QED
        BY <1>1, <4>1, <4>2, TailOrder
    <3>2. CASE Len(ttsQ) # QueueMax
      BY <1>1, <2>1, <3>2 DEF MakeRoom
    <3> QED
      BY <3>1, <3>2
  <2>3. Items(q) \X {NoChunk} \subseteq ChunkOrder
    <3>1. \A x \in Items(q) : <<x, NoChunk>> \in ChunkOrder
      BY <1>1, <2>2, NoChunkInOrder
    <3> QED
      BY <3>1
  <2>4. Items(Append(q, NoChunk)) = Items(q) \cup {NoChunk} /\ InOrder(Append(q, NoChunk), ChunkOrder)
    BY <1>1, <2>2, <2>3, AppendOrder
  <2> QED
    BY <1>5, <2>1, <2>2, <2>4
<1> QED
  BY <1>2, <1>3, <1>4, <1>5

LEMMA SupervisorChunks ==
  ASSUME TypeInv, SegmentsInv, ChunksInv, SupervisorStep \/ CancelSession
  PROVE  ChunksInv'
<1>1. CASE ~StartWork
  <2>1. /\ \/ ttsQ' = ttsQ
           \/ ttsQ' = Drain(ttsQ, NoChunk)
           \/ ttsQ' = Append(MakeRoom(ttsQ), NoChunk)
        /\ UNCHANGED <<translated, nextChunk, heard>>
        /\ supPc' = "work" => supPc = "work" /\ cur' = cur
    BY <1>1
    DEF SupervisorStep, CancelSession, TakeSegment, WaitForSegment, CancelGet,
        BargeInWhileIdle, BargeIn, Rearm, IgnoreOnset, DropSegment, CloseTtsQueue,
        FinishSegment, CancelWork, BargeInOnWork, StopGeneration, EndBargeIn, SupervisorEnds,
        SupervisorFails, SupervisorRaises, workVars, beyondSup
  <2>2. outstanding' \subseteq outstanding /\ calls' \subseteq calls
    BY <1>1
    DEF SupervisorStep, CancelSession, TakeSegment, WaitForSegment, CancelGet,
        BargeInWhileIdle, IgnoreOnset, DropSegment, CloseTtsQueue, FinishSegment, CancelWork,
        BargeInOnWork, StopGeneration, Stop, EndBargeIn, SupervisorEnds, SupervisorFails,
        SupervisorRaises, noBargeIn, ledgerVars
  <2> QED
    BY <2>1, <2>2, TtsQueueOrder, ChunksShrink
<1> QED
  BY <1>1, StartWorkChunks

LEMMA WorkChunks ==
  ASSUME TypeInv, ChunksInv, WorkStep \/ FailWork
  PROVE  ChunksInv'
<1>1. UNCHANGED <<translated, beyondWork>> /\ supPc = "work"
  BY DEF WorkStep, FailWork, YieldChunk, ResumePutChunk, EndWork, TypeInv, WorkInHand
<1>2. CASE SendChunk /\ nextChunk' = nextChunk + 1
  BY <1>1, <1>2, SendChunkChunks
<1>3. CASE UNCHANGED <<ttsQ, nextChunk>>
  <2>1. UNCHANGED <<heard, supPc, cur, outstanding, calls>>
    BY <1>1 DEF beyondWork, supVars, ledgerVars
  <2>2. Items(ttsQ') \subseteq Items(ttsQ) \cup {NoChunk} /\ InOrder(ttsQ', ChunkOrder)
    BY <1>3, TtsQueueOrder
  <2> QED
    BY <1>1, <1>3, <2>1, <2>2, ChunksShrink
<1> QED
  BY <1>2, <1>3 DEF WorkStep, FailWork, YieldChunk, ResumePutChunk, EndWork

LEMMA PlaybackChunks ==
  ASSUME TypeInv, LedgerInv, OneCaller, ChunksInv, PlaybackStep \/ FailPlayback
  PROVE  ChunksInv'
<1>1. CASE PlaybackEof \/ FinishDrain \/ FailPlayback
  <2>1. ttsQ' = ttsQ \/ (ttsQ # <<>> /\ ttsQ' = Tail(ttsQ))
    BY <1>1 DEF PlaybackEof, FinishDrain, FailPlayback, HasChunk
  <2>2. /\ UNCHANGED <<translated, nextChunk, heard, supPc, cur>>
        /\ outstanding' \subseteq outstanding /\ calls' \subseteq calls
    BY <1>1 DEF PlaybackEof, FinishDrain, FailPlayback, beyondPlay, supVars, workVars,
       ledgerVars
  <2> QED
    BY <2>1, <2>2, TtsQueueOrder, ChunksShrink
<1> QED
  BY <1>1, PlayChunkChunks, ResumeScheduleChunks DEF PlaybackStep

LEMMA OtherChunks ==
  ASSUME TypeInv, LedgerInv, ChunksInv,
         SttStep \/ BargeStep \/ SinkStep \/ UNCHANGED vars
  PROVE  ChunksInv'
<1>1. CASE SttStep \/ BargeStep \/ UNCHANGED vars
  <2>1. UNCHANGED <<ttsQ, translated, nextChunk, heard, supPc, cur, outstanding, calls>>
    BY <1>1 DEF SttStep, BargeStep, DropHypothesis, KeepHypothesis, ResumePut, StreamEnds,
       ResumePutSentinel, Onset, BargeStreamEnds, beyondStt, beyondBarge, vars, supVars,
       workVars, ledgerVars
  <2> QED
    BY <2>1, TtsQueueOrder, ChunksShrink
<1>2. ASSUME NEW h \in outstanding, Quiet(h) PROVE ChunksInv'
  <2>1. /\ UNCHANGED <<ttsQ, translated, nextChunk, heard, supPc, cur, calls>>
        /\ outstanding' \subseteq outstanding
    BY <1>2 DEF Quiet, FinishSounding, beyondSink, supVars, workVars
  <2> QED
    BY <2>1, TtsQueueOrder, ChunksShrink
<1> QED
  BY <1>1, <1>2, SoundChunks DEF SinkStep

LEMMA ChunksNext ==
  TypeInv /\ LeakInv /\ SegmentsInv /\ LedgerInv /\ ChunksInv /\ [Next]_vars => ChunksInv'
BY SupervisorChunks, WorkChunks, PlaybackChunks, OtherChunks
DEF LeakInv, Next, FaultStep, Finish

LEMMA ChunksInit == Init => LedgerInv /\ ChunksInv
<1> SUFFICES ASSUME Init PROVE LedgerInv /\ ChunksInv
  OBVIOUS
<1>1. /\ ttsQ = <<>> /\ outstanding = {} /\ calls = {} /\ heard = NoChunk /\ supPc = "next"
  BY DEF Init, LedgerInit
<1>2. Items(<<>>) = {} /\ InOrder(<<>>, ChunkOrder)
  BY DEF Items, InOrder
<1> QED
  BY <1>1, <1>2 DEF LedgerInv, ChunksInv, SynthesisInv, PlaybackOrder, HeardOrder

OrderInv == TypeInv /\ LeakInv /\ SegmentsInv /\ LedgerInv /\ ChunksInv

LEMMA OrderInvariant == ASSUME HasTurnIds PROVE Spec => []OrderInv
<1>1. Init => OrderInv
  <2>1. Init => LeakInv
    BY DEF Init, LedgerInit, LeakInv, WorkInHand, OneCaller, NoTaskLeft
  <2> QED
    BY <2>1, TypesInit, SegmentsInit, ChunksInit DEF OrderInv
<1>2. OrderInv /\ [Next]_vars => OrderInv'
  BY TypesNext, LeakNext, SegmentsNext, LedgerNext, ChunksNext DEF OrderInv
<1> QED
  BY <1>1, <1>2, PTL DEF Spec

---------------------------------------------------------------------------
(***************************************************************************)
(* The pipeline implements Interpretation.                                 *)
(***************************************************************************)

(* SoundingUnit is the unit of the one handle that sounds. *)
LEMMA UnitOfSounding ==
  /\ \A h \in outstanding :
       h.sounding /\ (\A o \in outstanding : o.sounding => o = h) => SoundingUnit = h.unit
  /\ (\A h \in outstanding : ~h.sounding) => SoundingUnit = NoChunk
<1>1. ASSUME NEW h \in outstanding, h.sounding, \A o \in outstanding : o.sounding => o = h
      PROVE  SoundingUnit = h.unit
  <2>1. (CHOOSE o \in outstanding : o.sounding) = h
    BY <1>1
  <2> QED
    BY <1>1, <2>1 DEF SoundingUnit
<1> QED
  BY <1>1 DEF SoundingUnit

LEMMA UnitOfSoundingNext ==
  /\ \A h \in outstanding' :
       h.sounding /\ (\A o \in outstanding' : o.sounding => o = h) => SoundingUnit' = h.unit
  /\ (\A h \in outstanding' : ~h.sounding) => SoundingUnit' = NoChunk
<1>1. ASSUME NEW h \in outstanding', h.sounding, \A o \in outstanding' : o.sounding => o = h
      PROVE  SoundingUnit' = h.unit
  <2>1. (CHOOSE o \in outstanding' : o.sounding) = h
    BY <1>1
  <2> QED
    BY <1>1, <2>1 DEF SoundingUnit
<1> QED
  BY <1>1 DEF SoundingUnit

LEMMA OneSounds ==
  ASSUME TypeInv, LedgerInv, NEW h \in outstanding, h.sounding
  PROVE  /\ \A o \in outstanding : o.sounding => o = h
         /\ SoundingUnit = h.unit /\ h.unit # NoChunk
<1>1. \A o \in outstanding : o.order \in Nat
  BY ChunkFacts
<1>2. \A o \in outstanding : o.sounding => o = h
  BY <1>1 DEF LedgerInv
<1> QED
  BY <1>2, UnitOfSounding, ChunkFacts

(* A step that leaves alone what sounds, and brings no silenced one back. *)
LEMMA ListenerInterrupt ==
  ASSUME TypeInv, LedgerInv, heard' = heard,
         abandoned \subseteq abandoned', invalidated \subseteq invalidated',
         \A h \in outstanding : h.sounding => h \in outstanding',
         \A h \in outstanding' :
           h \in outstanding \/ (~h.sounding /\ h.unit.seg.utt \notin SilencedNow),
         \A c \in calls' : c \in calls \/ c.unit.seg.utt \notin abandoned
  PROVE  Listener!Interrupt
<1>1. SilencedNow \subseteq SilencedNow' /\ SilencedNow' \subseteq abandoned'
  BY DEF SilencedNow
<1>2. \A h \in outstanding' : h.unit.seg.utt \notin SilencedNow'
  BY DEF SilencedNow
<1>3. CASE \E h \in outstanding : h.sounding
  <2>1. PICK h \in outstanding : h.sounding
    BY <1>3
  <2>2. /\ h \in outstanding' /\ SoundingUnit = h.unit
        /\ \A o \in outstanding' : o.sounding => o = h
    BY <2>1, OneSounds
  <2>3. SoundingUnit' = h.unit
    BY <2>1, <2>2, UnitOfSoundingNext
  <2> QED
    BY <1>1, <1>2, <2>2, <2>3 DEF Listener!Interrupt, Listener!Quieten, UtteranceOf
<1>4. CASE \A h \in outstanding : ~h.sounding
  <2>1. SoundingUnit = NoChunk
    BY <1>4, UnitOfSounding
  <2>2. \A h \in outstanding' : ~h.sounding
    BY <1>4
  <2>3. SoundingUnit' = NoChunk
    BY <2>2, UnitOfSoundingNext
  <2> QED
    BY <1>1, <2>1, <2>3 DEF Listener!Interrupt, Listener!Quieten, UtteranceOf
<1> QED
  BY <1>3, <1>4

(* A chunk begins to sound when no other does, and is not silenced. *)
LEMMA SoundBegins ==
  ASSUME TypeInv, LedgerInv, ChunksInv, NEW h \in outstanding, Sound(h)
  PROVE  Listener!Begin
<1>1. PICK new : new = [h EXCEPT !.sounding = TRUE]
  OBVIOUS
<1>2. /\ ~h.sounding /\ outstanding' = (outstanding \ {h}) \cup {new} /\ heard' = h.unit
      /\ \A o \in outstanding : h.order <= o.order
      /\ UNCHANGED <<abandoned, invalidated, calls>>
  BY <1>1 DEF Sound, StartSounding, beyondSink, supVars, rollVars
<1>3. new.unit = h.unit /\ new.sounding = TRUE
  BY <1>1 DEF TypeInv, TypeOK, SinkTypeOK, Handle
<1>4. \A o \in outstanding : ~o.sounding
  <2>1. \A o \in outstanding : o.order \in Nat
    BY ChunkFacts
  <2> QED
    BY <1>2, <2>1 DEF LedgerInv
<1>5. SoundingUnit = NoChunk
  BY <1>4, UnitOfSounding
<1>6. SoundingUnit' = h.unit /\ h.unit # NoChunk
  <2>1. new \in outstanding' /\ \A o \in outstanding' : o.sounding => o = new
    BY <1>2, <1>4
  <2> QED
    BY <1>3, <2>1, UnitOfSoundingNext, ChunkFacts
<1>7. heard = NoChunk \/ Before(heard, h.unit)
  <2>1. <<heard, h.unit>> \in ChunkOrder
    BY <1>2 DEF ChunksInv, HeardOrder
  <2> QED
    BY <1>6, <2>1 DEF ChunkOrder
<1>8. SilencedNow' = SilencedNow
  <2>1. /\ \A o \in outstanding' : \E r \in outstanding : o.unit = r.unit
        /\ \A o \in outstanding : \E r \in outstanding' : o.unit = r.unit
    BY <1>2, <1>3
  <2>2. \A u : (\A o \in outstanding' : o.unit.seg.utt # u)
                <=> (\A o \in outstanding : o.unit.seg.utt # u)
    BY <2>1
  <2> QED
    BY <1>2, <2>2 DEF SilencedNow
<1>9. h.unit.seg.utt \notin SilencedNow
  BY DEF SilencedNow
<1> QED
  BY <1>2, <1>5, <1>6, <1>7, <1>8, <1>9 DEF Listener!Begin, UtteranceOf

(* The chunk that sounds leaves the sink: presented, or stopped. *)
LEMMA SoundingEnds ==
  ASSUME TypeInv, LedgerInv, NEW h \in outstanding, h.sounding, h \notin outstanding',
         outstanding' \subseteq outstanding, invalidated \subseteq invalidated',
         UNCHANGED <<heard, abandoned, calls>>
  PROVE  Listener!End
<1>1. SoundingUnit = h.unit /\ h.unit # NoChunk /\ \A o \in outstanding : o.sounding => o = h
  BY OneSounds
<1>2. SoundingUnit' = NoChunk
  <2>1. \A o \in outstanding' : ~o.sounding
    BY <1>1
  <2> QED
    BY <2>1, UnitOfSoundingNext
<1>3. SilencedNow \subseteq SilencedNow' /\ SilencedNow' \subseteq abandoned'
  BY DEF SilencedNow
<1> QED
  BY <1>1, <1>2, <1>3 DEF Listener!End, Listener!Quieten

LEMMA StopGenerationIsHeard ==
  ASSUME TypeInv, LedgerInv, NEW p \in stops, StopGeneration(p)
  PROVE  Listener!End \/ Listener!Interrupt
<1>1. /\ invalidated \subseteq invalidated' /\ outstanding' \subseteq outstanding
      /\ UNCHANGED <<heard, abandoned, calls>>
  BY DEF StopGeneration, Stop, rollVars, beyondSup
<1>2. CASE \E h \in outstanding : h.sounding /\ h \notin outstanding'
  BY <1>1, <1>2, SoundingEnds
<1>3. CASE \A h \in outstanding : h.sounding => h \in outstanding'
  BY <1>1, <1>3, ListenerInterrupt
<1> QED
  BY <1>2, <1>3

LEMMA PlaybackIsHeard ==
  ASSUME TypeInv, LedgerInv, PlaybackStep \/ FailPlayback
  PROVE  Listener!Interrupt
<1>1. UNCHANGED <<heard, abandoned>>
  BY DEF PlaybackStep, PlaybackEof, PlayChunk, ResumeSchedule, FinishDrain, FailPlayback,
     beyondPlay, supVars, rollVars
<1>2. CASE PlayChunk
  <2>1. PICK x : x = Head(ttsQ)
    OBVIOUS
  <2>2. \/ UNCHANGED ledgerVars
        \/ x.seg.utt \notin abandoned /\ Schedule(GenerationOf(x.seg.utt), x)
    BY <1>2, <2>1 DEF PlayChunk
  <2>3. /\ UNCHANGED invalidated /\ outstanding \subseteq outstanding'
        /\ \A h \in outstanding' :
              h \in outstanding \/ (~h.sounding /\ h.unit.seg.utt \notin SilencedNow)
        /\ \A c \in calls' : c \in calls \/ c.unit.seg.utt \notin abandoned
    BY <2>2 DEF Schedule, Admit, ledgerVars, SilencedNow
  <2> QED
    BY <1>1, <2>3, ListenerInterrupt
<1>3. CASE ResumeSchedule
  <2>1. PICK c \in calls : Resume(c)
    BY <1>3 DEF ResumeSchedule
  <2>2. /\ UNCHANGED invalidated /\ outstanding \subseteq outstanding' /\ calls' \subseteq calls
        /\ \A h \in outstanding' :
              h \in outstanding \/ (~h.sounding /\ h.unit.seg.utt \notin SilencedNow)
    BY <2>1 DEF Resume, Admit, SilencedNow
  <2> QED
    BY <1>1, <2>2, ListenerInterrupt
<1>4. CASE PlaybackEof \/ FinishDrain \/ FailPlayback
  <2>1. UNCHANGED <<invalidated, outstanding>> /\ calls' \subseteq calls
    BY <1>4 DEF PlaybackEof, FinishDrain, FailPlayback, ledgerVars
  <2> QED
    BY <1>1, <2>1, ListenerInterrupt
<1> QED
  BY <1>2, <1>3, <1>4 DEF PlaybackStep

LEMMA OthersAreHeard ==
  ASSUME TypeInv, LedgerInv,
         \/ SttStep \/ WorkStep \/ FailWork \/ BargeStep \/ CancelSession \/ UNCHANGED vars
         \/ SupervisorStep /\ ~\E p \in stops : StopGeneration(p)
  PROVE  Listener!Interrupt
<1>1. /\ UNCHANGED <<heard, invalidated, outstanding>>
      /\ abandoned \subseteq abandoned' /\ calls' \subseteq calls
  <2>1. CASE SttStep \/ BargeStep \/ UNCHANGED vars
    BY <2>1 DEF SttStep, DropHypothesis, KeepHypothesis, ResumePut, StreamEnds,
       ResumePutSentinel, BargeStep, Onset, BargeStreamEnds, beyondStt, beyondBarge, vars,
       supVars, rollVars, ledgerVars
  <2>2. CASE WorkStep \/ FailWork
    BY <2>2 DEF WorkStep, FailWork, YieldChunk, ResumePutChunk, EndWork, beyondWork, supVars,
       rollVars, ledgerVars
  <2>3. CASE CancelSession \/ (SupervisorStep /\ ~\E p \in stops : StopGeneration(p))
    <3>1. UNCHANGED heard
      BY <2>3
      DEF SupervisorStep, CancelSession, TakeSegment, WaitForSegment, CancelGet,
          BargeInWhileIdle, IgnoreOnset, DropSegment, StartWork, CloseTtsQueue, FinishSegment,
          CancelWork, BargeInOnWork, EndBargeIn, SupervisorEnds, SupervisorFails, beyondSup
    <3>2. UNCHANGED <<invalidated, outstanding>> /\ calls' \subseteq calls
      BY <2>3
      DEF SupervisorStep, CancelSession, TakeSegment, WaitForSegment, CancelGet,
          BargeInWhileIdle, IgnoreOnset, DropSegment, StartWork, CloseTtsQueue, FinishSegment,
          CancelWork, BargeInOnWork, EndBargeIn, SupervisorEnds, SupervisorFails,
          SupervisorRaises, noBargeIn, ledgerVars
    <3>3. abandoned \subseteq abandoned'
      BY <2>3
      DEF SupervisorStep, CancelSession, TakeSegment, WaitForSegment, CancelGet,
          BargeInWhileIdle, BargeIn, IgnoreOnset, DropSegment, StartWork, CloseTtsQueue,
          FinishSegment, CancelWork, BargeInOnWork, EndBargeIn, SupervisorEnds,
          SupervisorFails, noBargeIn, rollVars
    <3> QED
      BY <3>1, <3>2, <3>3
  <2> QED
    BY <2>1, <2>2, <2>3
<1> QED
  BY <1>1, ListenerInterrupt

LEMMA ListenerNext ==
  OrderInv /\ [Next]_vars => [Listener!Next]_(Listener!vars)
<1> SUFFICES ASSUME TypeInv, LedgerInv, ChunksInv, [Next]_vars PROVE Listener!Next
  BY DEF OrderInv
<1>1. CASE SinkStep
  <2>1. ASSUME NEW h \in outstanding, Quiet(h) PROVE Listener!End
    <3>1. /\ h.sounding /\ outstanding' = outstanding \ {h}
          /\ UNCHANGED <<heard, abandoned, invalidated, calls>>
      BY <2>1 DEF Quiet, FinishSounding, beyondSink, supVars, rollVars
    <3> QED
      BY <3>1, SoundingEnds
  <2> QED
    BY <1>1, <2>1, SoundBegins DEF SinkStep, Listener!Next
<1>2. CASE \E p \in stops : StopGeneration(p)
  BY <1>2, StopGenerationIsHeard DEF Listener!Next
<1>3. CASE PlaybackStep \/ FailPlayback
  BY <1>3, PlaybackIsHeard DEF Listener!Next
<1>4. CASE \/ SttStep \/ WorkStep \/ FailWork \/ BargeStep \/ CancelSession \/ UNCHANGED vars
           \/ SupervisorStep /\ ~\E p \in stops : StopGeneration(p)
  BY <1>4, OthersAreHeard DEF Listener!Next
<1> QED
  BY <1>1, <1>2, <1>3, <1>4 DEF Next, FaultStep, Finish

(* What is heard is what Interpretation promises. *)
THEOREM HeardAsPromised == HasTurnIds => (Spec => ImplementsInterpretation)
<1> SUFFICES ASSUME HasTurnIds PROVE Spec => ImplementsInterpretation
  OBVIOUS
<1>1. Init => Listener!Init
  <2> SUFFICES ASSUME Init PROVE Listener!Init
    OBVIOUS
  <2>1. outstanding = {} /\ heard = NoChunk /\ abandoned = {}
    BY DEF Init, LedgerInit
  <2>2. SoundingUnit = NoChunk /\ SilencedNow = {}
    BY <2>1 DEF SoundingUnit, SilencedNow
  <2> QED
    BY <2>1, <2>2 DEF Listener!Init
<1>2. OrderInv /\ [Next]_vars => [Listener!Next]_(Listener!vars)
  BY ListenerNext
<1>3. Spec => []OrderInv
  BY OrderInvariant
<1> QED
  BY <1>1, <1>2, <1>3, PTL DEF Spec, ImplementsInterpretation, Listener!Spec

---------------------------------------------------------------------------
(***************************************************************************)
(* The sink by itself (PlaybackSink).  For every capacity, every set of    *)
(* chunks and any behaviour of the callers: it respects its capacity,      *)
(* belongs to one generation, never plays a stopped one, and plays in the  *)
(* order of acceptance.                                                    *)
(***************************************************************************)

(* A handle is told by its order, and orders stay below the next one. *)
Numbered ==
  /\ lastStarted <= accepted
  /\ \A h \in outstanding : h.order < accepted
  /\ \A h1, h2 \in outstanding : h1.order = h2.order => h1 = h2

SinkInv ==
  /\ CallersTypeOK
  /\ IsFiniteSet(outstanding)
  /\ Numbered
  /\ OneOwner
  /\ StoppedIsSilent
  /\ HeardInOrder

(* Initially the sink is empty. *)
LEMMA CallersInvInit == CallersInit => SinkInv
BY FS_EmptySet, CapacityAssumption
DEF CallersInit, LedgerInit, SinkInv, CallersTypeOK, Numbered, OneOwner, StoppedIsSilent, HeardInOrder,
    Handle, Call

(***************************************************************************)
(* The end of schedule(): admitting a chunk once the condition holds keeps *)
(* the invariant.  Both a call that returns at once and one that waited    *)
(* end this way.                                                           *)
(***************************************************************************)
LEMMA AdmitKeepsSinkInv ==
  ASSUME SinkInv,
         NEW g \in Nat, NEW u \in Unit,
         Schedulable(g), Admit(g, u),
         calls' \subseteq Call(Unit),
         UNCHANGED <<genSeq, invalidated, lastStarted>>
  PROVE  SinkInv'
<1> DEFINE new == [order |-> accepted, gen |-> g, unit |-> u, sounding |-> FALSE]
<1>1. CASE g \in invalidated
  <2>1. UNCHANGED <<outstanding, accepted>>
    BY <1>1 DEF Admit
  <2> QED
    BY <2>1 DEF SinkInv, CallersTypeOK, Numbered, OneOwner, StoppedIsSilent, HeardInOrder
<1>2. CASE g \notin invalidated
  <2>1. outstanding' = outstanding \cup {new} /\ accepted' = accepted + 1
    BY <1>2 DEF Admit
  <2>2. Cardinality(outstanding) < Capacity /\ \A h \in outstanding : h.gen = g
    BY <1>2 DEF Schedulable
  <2>3. /\ new \in Handle(Unit)
        /\ new.order = accepted /\ new.gen = g /\ ~new.sounding
    BY DEF Handle, SinkInv, CallersTypeOK
  <2> HIDE DEF new
  <2>4. IsFiniteSet(outstanding') /\ Cardinality(outstanding') <= Capacity
    <3>1. IsFiniteSet(outstanding)
      BY DEF SinkInv
    <3>2. Cardinality(outstanding) \in Nat
      BY <3>1, FS_CardinalityType
    <3>3. Capacity \in Nat
      BY CapacityAssumption
    <3>4. /\ IsFiniteSet(outstanding \cup {new})
          /\ \/ Cardinality(outstanding \cup {new}) = Cardinality(outstanding)
             \/ Cardinality(outstanding \cup {new}) = Cardinality(outstanding) + 1
      BY <3>1, FS_AddElement
    <3> QED
      BY <2>1, <2>2, <3>2, <3>3, <3>4
  <2>5. CallersTypeOK'
    BY <2>1, <2>3, <2>4 DEF SinkInv, CallersTypeOK, Handle, Call
  <2>6. Numbered'
    BY <2>1, <2>3 DEF SinkInv, Numbered, CallersTypeOK, Handle
  <2>7. OneOwner'
    BY <2>1, <2>2, <2>3 DEF OneOwner
  <2>8. StoppedIsSilent'
    BY <1>2, <2>1, <2>3 DEF SinkInv, StoppedIsSilent
  <2>9. HeardInOrder'
    BY <2>1, <2>3 DEF SinkInv, Numbered, HeardInOrder
  <2> QED
    BY <2>4, <2>5, <2>6, <2>7, <2>8, <2>9 DEF SinkInv
<1> QED
  BY <1>1, <1>2

(* Releasing handles, whichever and however many, keeps the invariant. *)
LEMMA ReleaseKeepsSinkInv ==
  ASSUME SinkInv,
         outstanding' \subseteq outstanding,
         \A h \in outstanding' : h.gen \notin invalidated',
         invalidated' \subseteq Nat,
         UNCHANGED <<genSeq, accepted, calls, lastStarted>>
  PROVE  SinkInv'
<1>1. IsFiniteSet(outstanding') /\ Cardinality(outstanding') <= Cardinality(outstanding)
  BY FS_Subset DEF SinkInv
<1>2. Cardinality(outstanding') \in Nat /\ Cardinality(outstanding) \in Nat
  BY <1>1, FS_CardinalityType DEF SinkInv
<1>3. CallersTypeOK'
  BY <1>1, <1>2, CapacityAssumption DEF SinkInv, CallersTypeOK, Handle, Call
<1> QED
  BY <1>1, <1>3 DEF SinkInv, Numbered, OneOwner, StoppedIsSilent, HeardInOrder

(***************************************************************************)
(* A handle that becomes audible is the oldest one: nothing else sounds,   *)
(* and everything still silent comes after it.                             *)
(***************************************************************************)
LEMMA PresentKeepsSinkInv ==
  ASSUME SinkInv, NEW h \in outstanding, Present(h)
  PROVE  SinkInv'
<1> DEFINE louder == [h EXCEPT !.sounding = TRUE]
<1>1. /\ outstanding' = (outstanding \ {h}) \cup {louder}
      /\ lastStarted' = h.order + 1
      /\ ~h.sounding
      /\ \A other \in outstanding : h.order <= other.order
      /\ UNCHANGED <<genSeq, invalidated, accepted, calls>>
  BY DEF Present, StartSounding
<1>2. h \in Handle(Unit) /\ outstanding \subseteq Handle(Unit) /\ accepted \in Nat
  BY DEF SinkInv, CallersTypeOK
<1>3. /\ louder \in Handle(Unit) /\ louder.sounding
      /\ louder.order = h.order /\ louder.gen = h.gen
  BY <1>2 DEF Handle
<1> HIDE DEF louder
<1>4. \A other \in outstanding \ {h} : h.order < other.order /\ ~other.sounding
  BY <1>1, <1>2 DEF SinkInv, Numbered, HeardInOrder, CallersTypeOK, Handle
<1>5. louder \notin outstanding \ {h}
  BY <1>3, <1>4
<1>6. IsFiniteSet(outstanding') /\ Cardinality(outstanding') <= Capacity
  <2>1. IsFiniteSet(outstanding) /\ Cardinality(outstanding) \in Nat
    BY FS_CardinalityType DEF SinkInv
  <2>2. /\ IsFiniteSet(outstanding \ {h})
        /\ Cardinality(outstanding \ {h}) = Cardinality(outstanding) - 1
    BY <2>1, FS_RemoveElement
  <2>3. /\ IsFiniteSet(outstanding')
        /\ Cardinality(outstanding') = Cardinality(outstanding \ {h}) + 1
    BY <1>1, <1>5, <2>2, FS_AddElement
  <2> QED
    BY <2>1, <2>2, <2>3 DEF SinkInv, CallersTypeOK
<1>7. CallersTypeOK'
  BY <1>1, <1>2, <1>3, <1>6 DEF SinkInv, CallersTypeOK, Handle, Call
<1>8. Numbered'
  BY <1>1, <1>2, <1>3, <1>4 DEF SinkInv, Numbered, Handle
<1>9. OneOwner' /\ StoppedIsSilent'
  BY <1>1, <1>3 DEF SinkInv, OneOwner, StoppedIsSilent
<1>10. HeardInOrder'
  BY <1>1, <1>2, <1>3, <1>4 DEF HeardInOrder, Handle
<1> QED
  BY <1>6, <1>7, <1>8, <1>9, <1>10 DEF SinkInv

(* Every step of every caller keeps the invariant. *)
LEMMA CallersInvNext == SinkInv /\ [CallersNext]_sinkVars => SinkInv'
<1> SUFFICES ASSUME SinkInv, [CallersNext]_sinkVars PROVE SinkInv'
  OBVIOUS
<1>1. CASE AskGeneration
  BY <1>1
  DEF AskGeneration, SinkInv, CallersTypeOK, Numbered, OneOwner, StoppedIsSilent, HeardInOrder
<1>2. ASSUME NEW g \in 1..genSeq, NEW u \in Unit, CallSchedule(g, u) PROVE SinkInv'
  <2>1. g \in Nat /\ [gen |-> g, unit |-> u] \in Call(Unit)
    BY DEF SinkInv, CallersTypeOK, Call
  <2>2. UNCHANGED <<genSeq, invalidated, lastStarted>>
    BY <1>2 DEF CallSchedule, Schedule
  <2>3. CASE Schedulable(g)
    <3>1. Admit(g, u) /\ calls' = calls
      BY <1>2, <2>3 DEF CallSchedule, Schedule
    <3>2. calls' \subseteq Call(Unit)
      BY <3>1 DEF SinkInv, CallersTypeOK
    <3> QED
      BY <2>1, <2>2, <2>3, <3>1, <3>2, AdmitKeepsSinkInv
  <2>4. CASE ~Schedulable(g)
    <3>1. /\ calls' = calls \cup {[gen |-> g, unit |-> u]}
          /\ UNCHANGED <<outstanding, accepted>>
      BY <1>2, <2>4 DEF CallSchedule, Schedule
    <3> QED
      BY <2>1, <2>2, <3>1
      DEF SinkInv, CallersTypeOK, Numbered, OneOwner, StoppedIsSilent, HeardInOrder
  <2> QED
    BY <2>3, <2>4
<1>3. ASSUME NEW c \in calls, WakeCall(c) PROVE SinkInv'
  <2>1. c.gen \in Nat /\ c.unit \in Unit /\ calls \subseteq Call(Unit)
    BY DEF SinkInv, CallersTypeOK, Call
  <2>2. /\ Schedulable(c.gen) /\ Admit(c.gen, c.unit)
        /\ calls' = calls \ {c}
        /\ UNCHANGED <<genSeq, invalidated, lastStarted>>
    BY <1>3 DEF WakeCall, Resume
  <2>3. calls' \subseteq Call(Unit)
    BY <2>1, <2>2
  <2> QED
    BY <2>1, <2>2, <2>3, AdmitKeepsSinkInv
<1>4. ASSUME NEW h \in outstanding, Present(h) PROVE SinkInv'
  BY <1>4, PresentKeepsSinkInv
<1>5. ASSUME NEW h \in outstanding, Silence(h) PROVE SinkInv'
  <2>1. /\ outstanding' \subseteq outstanding
        /\ UNCHANGED <<genSeq, invalidated, accepted, calls, lastStarted>>
    BY <1>5 DEF Silence, FinishSounding
  <2>2. invalidated' \subseteq Nat /\ \A x \in outstanding' : x.gen \notin invalidated'
    BY <2>1 DEF SinkInv, CallersTypeOK, StoppedIsSilent
  <2> QED
    BY <2>1, <2>2, ReleaseKeepsSinkInv
<1>6. ASSUME NEW g \in 1..genSeq, CallStop(g) PROVE SinkInv'
  <2>1. /\ outstanding' = {h \in outstanding : h.gen # g}
        /\ invalidated' = invalidated \cup {g}
        /\ UNCHANGED <<genSeq, accepted, calls, lastStarted>>
    BY <1>6 DEF CallStop, Stop
  <2>2. invalidated' \subseteq Nat /\ \A x \in outstanding' : x.gen \notin invalidated'
    BY <2>1 DEF SinkInv, CallersTypeOK, StoppedIsSilent
  <2> QED
    BY <2>1, <2>2, ReleaseKeepsSinkInv
<1>7. CASE UNCHANGED sinkVars
  BY <1>7
  DEF sinkVars, ledgerVars, SinkInv, CallersTypeOK, Numbered, OneOwner, StoppedIsSilent, HeardInOrder
<1> QED
  BY <1>1, <1>2, <1>3, <1>4, <1>5, <1>6, <1>7 DEF CallersNext

THEOREM SinkInvariant == CallersSpec => []SinkInv
BY CallersInvInit, CallersInvNext, PTL DEF CallersSpec

(* The ledger keeps its types, and never holds more than its capacity. *)
THEOREM CallersKeepTypes == CallersSpec => []CallersTypeOK
<1>1. SinkInv => CallersTypeOK
  BY DEF SinkInv
<1> QED
  BY <1>1, SinkInvariant, PTL

(* Single-generation ownership, for any capacity and any callers. *)
THEOREM SinkHasOneOwner == CallersSpec => []OneOwner
<1>1. SinkInv => OneOwner
  BY DEF SinkInv
<1> QED
  BY <1>1, SinkInvariant, PTL

(* stop() is final: no chunk of a stopped generation is outstanding again. *)
THEOREM StoppedStaysSilent == CallersSpec => []StoppedIsSilent
<1>1. SinkInv => StoppedIsSilent
  BY DEF SinkInv
<1> QED
  BY <1>1, SinkInvariant, PTL

(* Presentation follows acceptance, one chunk at a time. *)
THEOREM PlaysInOrder == CallersSpec => []HeardInOrder
<1>1. SinkInv => HeardInOrder
  BY DEF SinkInv
<1> QED
  BY <1>1, SinkInvariant, PTL

(* All of it together: what schedule() and stop() keep for any callers. *)
THEOREM SinkStaysSound == CallersSpec => []PlaybackIsSound
<1>1. CallersTypeOK /\ OneOwner /\ StoppedIsSilent /\ HeardInOrder => PlaybackIsSound
  BY DEF PlaybackIsSound
<1> QED
  BY <1>1, CallersKeepTypes, SinkHasOneOwner, StoppedStaysSilent, PlaysInOrder, PTL

---------------------------------------------------------------------------
(* The sink keeps the contract of AudioSink. *)

(* The contract counts with an instance of Cardinality. *)
LEMMA SameCount ==
  ASSUME NEW S
  PROVE  Contract!Cardinality(S) = Cardinality(S)
BY DEF Contract!Cardinality, Cardinality

(* What the contract sees of handles. *)
Seen(hs) == {[order |-> h.order + 1, gen |-> h.gen] : h \in hs}

LEMMA SeenAreNoMore ==
  ASSUME NEW hs, IsFiniteSet(hs)
  PROVE  IsFiniteSet(Seen(hs)) /\ Cardinality(Seen(hs)) <= Cardinality(hs)
<1> DEFINE f == [h \in hs |-> [order |-> h.order + 1, gen |-> h.gen]]
<1>1. f \in Surjection(hs, Seen(hs))
  BY DEF Seen, Surjection
<1> QED
  BY <1>1, FS_Surjection

(* A call that waits asks for a generation that was issued. *)
CallsAreIssued == genSeq \in Nat /\ \A c \in calls : c.gen \in 1..genSeq

LEMMA CallsAreIssuedNext == CallsAreIssued /\ [CallersNext]_sinkVars => CallsAreIssued'
<1> SUFFICES ASSUME CallsAreIssued, [CallersNext]_sinkVars PROVE CallsAreIssued'
  OBVIOUS
<1>1. CASE AskGeneration
  BY <1>1 DEF AskGeneration, CallsAreIssued
<1>2. ASSUME NEW g \in 1..genSeq, NEW u \in Unit, CallSchedule(g, u) PROVE CallsAreIssued'
  <2>1. genSeq' = genSeq /\ calls' \subseteq calls \cup {[gen |-> g, unit |-> u]}
    BY <1>2 DEF CallSchedule, Schedule
  <2> QED
    BY <2>1 DEF CallsAreIssued
<1>3. CASE \/ \E c \in calls : WakeCall(c)
           \/ \E h \in outstanding : Present(h) \/ Silence(h)
           \/ \E g \in 1..genSeq : CallStop(g)
           \/ UNCHANGED sinkVars
  <2>1. genSeq' = genSeq /\ calls' \subseteq calls
    BY <1>3 DEF WakeCall, Resume, Present, StartSounding, Silence, FinishSounding, CallStop,
         Stop, sinkVars, ledgerVars
  <2> QED
    BY <2>1 DEF CallsAreIssued
<1> QED
  BY <1>1, <1>2, <1>3 DEF CallersNext

(* The end of schedule() is what the contract calls Accept, or nothing. *)
LEMMA AdmitAccepts ==
  ASSUME SinkInv, NEW g, NEW u, Schedulable(g), Admit(g, u),
         UNCHANGED <<genSeq, invalidated, lastStarted>>
  PROVE  Contract!Accept(g) \/ UNCHANGED Contract!vars
<1>1. CASE g \in invalidated
  BY <1>1 DEF Admit, Contract!vars
<1>2. CASE g \notin invalidated
  <2> DEFINE new == [order |-> accepted, gen |-> g, unit |-> u, sounding |-> FALSE]
  <2>1. outstanding' = outstanding \cup {new} /\ accepted' = accepted + 1
    BY <1>2 DEF Admit
  <2>2. new.order = accepted /\ new.gen = g
    OBVIOUS
  <2> HIDE DEF new
  <2>3. Cardinality(outstanding) < Capacity /\ \A h \in outstanding : h.gen = g
    BY <1>2 DEF Schedulable
  <2>4. Contract!Cardinality(Seen(outstanding)) < Capacity
    <3>1. IsFiniteSet(outstanding) /\ Cardinality(outstanding) \in Nat
      BY FS_CardinalityType DEF SinkInv
    <3>2. /\ Cardinality(Seen(outstanding)) <= Cardinality(outstanding)
          /\ Cardinality(Seen(outstanding)) \in Nat
      BY <3>1, SeenAreNoMore, FS_CardinalityType
    <3>3. Cardinality(Seen(outstanding)) < Capacity
      BY <2>3, <3>1, <3>2, CapacityAssumption
    <3> QED
      BY <3>3, SameCount
  <2>5. Seen(outstanding') = Seen(outstanding) \cup {[order |-> accepted', gen |-> g]}
    BY <2>1, <2>2 DEF Seen
  <2>6. \A c \in Seen(outstanding) : c.gen = g
    BY <2>3 DEF Seen
  <2> QED
    BY <1>2, <2>1, <2>4, <2>5, <2>6 DEF Contract!Accept, Seen
<1> QED
  BY <1>1, <1>2

(* A chunk that becomes audible is later than all before. *)
LEMMA PresentBegins ==
  ASSUME SinkInv, NEW h \in outstanding, Present(h)
  PROVE  \E c \in Seen(outstanding) : Contract!Begin(c)
<1> DEFINE louder == [h EXCEPT !.sounding = TRUE]
           c == [order |-> h.order + 1, gen |-> h.gen]
<1>1. /\ outstanding' = (outstanding \ {h}) \cup {louder}
      /\ lastStarted' = h.order + 1 /\ ~h.sounding
      /\ UNCHANGED <<genSeq, invalidated, accepted>>
  BY DEF Present, StartSounding
<1>2. h \in Handle(Unit) /\ lastStarted \in Nat /\ h.order >= lastStarted
  BY <1>1 DEF SinkInv, CallersTypeOK, HeardInOrder
<1>3. louder.order = h.order /\ louder.gen = h.gen
  BY <1>2 DEF Handle
<1> HIDE DEF louder
<1>4. Seen(outstanding') = Seen(outstanding)
  BY <1>1, <1>3 DEF Seen
<1>5. lastStarted < c.order /\ c.order = h.order + 1
  BY <1>2 DEF Handle
<1>6. c \in Seen(outstanding)
  BY DEF Seen
<1> HIDE DEF c
<1>7. Contract!Begin(c)
  BY <1>1, <1>4, <1>5, <1>6 DEF Contract!Begin, Seen
<1> QED
  BY <1>6, <1>7

(* What completes sounds, and everything else comes after it. *)
LEMMA SilenceCompletes ==
  ASSUME SinkInv, NEW h \in outstanding, Silence(h)
  PROVE  Contract!Complete
<1>1. /\ outstanding' = outstanding \ {h} /\ h.sounding
      /\ UNCHANGED <<genSeq, invalidated, accepted, lastStarted>>
  BY DEF Silence, FinishSounding
<1>2. outstanding \subseteq Handle(Unit) /\ lastStarted \in Nat /\ h.order < lastStarted
  BY <1>1 DEF SinkInv, CallersTypeOK, HeardInOrder
<1>3. \A k \in outstanding' : h.order < k.order
  <2> SUFFICES ASSUME NEW k \in outstanding' PROVE h.order < k.order
    OBVIOUS
  <2>1. k \in outstanding /\ k # h
    BY <1>1
  <2>2. ~k.sounding
    BY <1>1, <2>1 DEF SinkInv, HeardInOrder
  <2>3. k.order >= lastStarted
    BY <2>1, <2>2 DEF SinkInv, HeardInOrder
  <2> QED
    BY <1>2, <2>1, <2>3 DEF Handle
<1>4. Seen(outstanding') \subseteq Seen(outstanding)
  BY <1>1 DEF Seen
<1>5. ASSUME NEW c \in Seen(outstanding) \ Seen(outstanding')
      PROVE  c.order <= lastStarted /\ \A other \in Seen(outstanding') : c.order < other.order
  <2>1. c = [order |-> h.order + 1, gen |-> h.gen]
    BY <1>1, <1>5 DEF Seen
  <2>2. c.order = h.order + 1 /\ h.order \in Nat
    BY <1>2, <2>1 DEF Handle
  <2>3. \A other \in Seen(outstanding') : \E k \in outstanding' : other.order = k.order + 1
    BY DEF Seen
  <2>4. \A k \in outstanding' : k.order \in Nat
    BY <1>1, <1>2 DEF Handle
  <2> QED
    BY <1>2, <1>3, <2>2, <2>3, <2>4
<1> QED
  BY <1>1, <1>4, <1>5 DEF Contract!Complete, Seen

LEMMA CallersKeepContract ==
  SinkInv /\ CallsAreIssued /\ [CallersNext]_sinkVars => [Contract!Next]_(Contract!vars)
<1> SUFFICES ASSUME SinkInv, CallsAreIssued, [CallersNext]_sinkVars
             PROVE  Contract!Next \/ UNCHANGED Contract!vars
  OBVIOUS
<1>1. CASE AskGeneration
  <2>1. Contract!NewGeneration
    BY <1>1 DEF AskGeneration, Contract!NewGeneration
  <2> QED
    BY <2>1 DEF Contract!Next
<1>2. ASSUME NEW g \in 1..genSeq, NEW u \in Unit, CallSchedule(g, u)
      PROVE  Contract!Next \/ UNCHANGED Contract!vars
  <2>1. UNCHANGED <<genSeq, invalidated, lastStarted>>
    BY <1>2 DEF CallSchedule, Schedule
  <2>2. CASE Schedulable(g)
    <3>1. Admit(g, u)
      BY <1>2, <2>2 DEF CallSchedule, Schedule
    <3> QED
      BY <2>1, <2>2, <3>1, AdmitAccepts DEF Contract!Next
  <2>3. CASE ~Schedulable(g)
    <3>1. UNCHANGED <<outstanding, accepted>>
      BY <1>2, <2>3 DEF CallSchedule, Schedule
    <3> QED
      BY <2>1, <3>1 DEF Contract!vars
  <2> QED
    BY <2>2, <2>3
<1>3. ASSUME NEW c \in calls, WakeCall(c) PROVE Contract!Next \/ UNCHANGED Contract!vars
  <2>1. /\ c.gen \in 1..genSeq /\ Schedulable(c.gen) /\ Admit(c.gen, c.unit)
        /\ UNCHANGED <<genSeq, invalidated, lastStarted>>
    BY <1>3 DEF CallsAreIssued, WakeCall, Resume
  <2> QED
    BY <2>1, AdmitAccepts DEF Contract!Next
<1>4. ASSUME NEW h \in outstanding, Present(h) PROVE Contract!Next
  BY <1>4, PresentBegins DEF Contract!Next, Seen
<1>5. ASSUME NEW h \in outstanding, Silence(h) PROVE Contract!Next
  BY <1>5, SilenceCompletes DEF Contract!Next
<1>6. ASSUME NEW g \in 1..genSeq, CallStop(g) PROVE Contract!Next
  <2>1. /\ outstanding' = {h \in outstanding : h.gen # g}
        /\ invalidated' = invalidated \cup {g}
        /\ UNCHANGED <<genSeq, accepted, lastStarted>>
    BY <1>6 DEF CallStop, Stop
  <2>2. Seen(outstanding') = {c \in Seen(outstanding) : c.gen # g}
    BY <2>1 DEF Seen
  <2>3. Contract!Stop(g)
    BY <2>1, <2>2 DEF Contract!Stop, Seen
  <2> QED
    BY <2>3 DEF Contract!Next
<1>7. CASE UNCHANGED sinkVars
  BY <1>7 DEF sinkVars, ledgerVars, Contract!vars
<1> QED
  BY <1>1, <1>2, <1>3, <1>4, <1>5, <1>6, <1>7 DEF CallersNext

(***************************************************************************)
(* Whatever its callers do, the sink is an AudioSink (types.py): it does   *)
(* what PlaybackContract allows, for any capacity and any chunks.          *)
(***************************************************************************)
THEOREM SinkKeepsContract == CallersSpec => ImplementsContract
<1>1. CallersInit => Contract!Init
  <2> SUFFICES ASSUME CallersInit PROVE Contract!Init
    OBVIOUS
  <2>1. genSeq = 0 /\ invalidated = {} /\ outstanding = {} /\ accepted = 0 /\ lastStarted = 0
    BY DEF CallersInit, LedgerInit
  <2> QED
    BY <2>1 DEF Contract!Init
<1>2. CallersInit => CallsAreIssued
  BY DEF CallersInit, LedgerInit, CallsAreIssued
<1>3. SinkInv /\ CallsAreIssued /\ [CallersNext]_sinkVars => [Contract!Next]_(Contract!vars)
  BY CallersKeepContract
<1> QED
  BY <1>1, <1>2, <1>3, SinkInvariant, CallsAreIssuedNext, PTL
     DEF CallersSpec, ImplementsContract, Contract!Spec

============================================================================
