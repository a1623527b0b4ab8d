------------------------- MODULE WhisperSttProofs -------------------------
(***************************************************************************)
(* The two invariants of the run of WhisperStt, for audio of any length,   *)
(* any thresholds of the endpoint detector, a decode queue of any size and *)
(* a worker of any speed, with the source, the worker or the caller giving *)
(* up at any moment.                                                       *)
(*                                                                         *)
(* TurnsAreRight: CutInv says of the buffer what the property says of a    *)
(* turn, as far as it has come, and what the detector's counters mean for  *)
(* the frames behind it.  HypothesesAreRight: FlowInv follows a hypothesis *)
(* from the queue through the worker and the output queue to the caller;   *)
(* all of it lies behind what the buffer may still become (Past).          *)
(***************************************************************************)
EXTENDS WhisperStt, SequenceTheorems, FiniteSetTheorems, TLAPS

Req == [turn : Nat, final : BOOLEAN, frames : Seq(Nat)]
Item == [kind : {"tokens"}, hyp : Req] \cup {Failure, EndOfStream}
Vad == [inSpeech : BOOLEAN, silence : Nat]
Detector ==
  [vad : Vad, preRoll : Seq(Nat), inTurn : BOOLEAN, length : Nat, silence : Nat, partial : Nat]

Types ==
  /\ loud \in Seq(BOOLEAN) /\ detector \in Detector
  /\ turns \in Nat /\ turns <= Len(loud) /\ turn \in Nat /\ turn <= turns
  /\ buffer \in Seq(Nat)
  /\ ingest \in {"running", "done", "failed"}
  /\ queue \in Seq(Req) /\ eof \in BOOLEAN /\ error \in BOOLEAN
  /\ pump \in {"idle", "busy", "done"} /\ request \in Req
  /\ out \in Seq(Item) /\ stream \in {"open", "returned", "raised", "closed"}
  /\ finals \in Seq(Req) /\ emitted \in Seq(Req) /\ tailEnds \in BOOLEAN

---------------------------------------------------------------------------
(* Turns. *)

(* q holds the frames of an unbroken stretch of audio up to frame n. *)
Stretch(q, n) == Len(q) <= n /\ \A k \in 1..Len(q) : q[k] = n - Len(q) + k

(* No frame of the audio h from a to b is speech. *)
Quiet(h, a, b) == \A m \in a..b : m \in 1..Len(h) => ~IsSpeech(h, m)

(* The VAD is in speech when the last frame was, and silence is how many   *)
(* quiet frames there were since the last loud one.                        *)
VadInv(h, vad) ==
  LET n == Len(h)
  IN  /\ vad.inSpeech <=> n > 0 /\ IsSpeech(h, n)
      /\ vad.inSpeech =>
           /\ vad.silence < n /\ h[n - vad.silence]
           /\ \A i \in (n - vad.silence + 1)..n : ~h[i]

(* The last s frames of h are not speech, the one before is, and the       *)
(* silence is not long enough to end a turn.                               *)
SilenceInv(h, s) ==
  /\ s < Pause /\ s < Len(h) /\ IsSpeech(h, Len(h) - s)
  /\ \A m \in (Len(h) - s + 1)..Len(h) : ~IsSpeech(h, m)

(* The stretch q up to frame n begins soon enough before its first speech  *)
(* and holds no silence long enough to end it.                             *)
CutRight(h, q, n) ==
  LET first == n - Len(q) + 1
  IN  /\ ~Quiet(h, first, Least(first + PreRoll, n))
      /\ \A k \in first..n :
           k - Pause + 1 >= first /\ k > first + PreRoll => ~Quiet(h, k - Pause + 1, k)

(* The stretch q up to frame n was ended where it should be. *)
Ended(h, q, n) ==
  \/ Len(q) >= MaxUtterance
  \/ n < Len(h) /\ Quiet(h, n + 2 - Pause, n + 1)

LastFrame(q) == q[Len(q)]

Piece(h, q) ==
  /\ q # <<>> /\ Stretch(q, LastFrame(q)) /\ LastFrame(q) <= Len(h)
  /\ CutRight(h, q, LastFrame(q))

FinalsInv ==
  /\ \A i \in 1..Len(finals) :
       /\ Piece(loud, finals[i].frames)
       /\ \/ Ended(loud, finals[i].frames, LastFrame(finals[i].frames))
          \/ eof /\ i = Len(finals)
  /\ \A i, j \in 1..Len(finals) :
       i < j => LastFrame(finals[i].frames) < finals[j].frames[1]

(* What the detector and the buffer hold of the audio that is not yet cut. *)
OpenInv ==
  IF detector.inTurn
    THEN /\ turn = turns /\ turns >= 1
         /\ detector.preRoll = <<>> /\ buffer # <<>> /\ detector.length = Len(buffer)
         /\ Stretch(buffer, Len(loud)) /\ CutRight(loud, buffer, Len(loud))
         /\ SilenceInv(loud, detector.silence)
    ELSE /\ turn = 0 /\ buffer = <<>>
         /\ Stretch(detector.preRoll, Len(loud)) /\ Len(detector.preRoll) <= PreRoll

(* The turns submitted end at frame m or before. *)
CutBefore(submitted, m) ==
  \A i \in 1..Len(submitted) : LastFrame(submitted[i].frames) <= m

TurnInv ==
  ingest = "running" =>
    /\ ~eof /\ ~tailEnds
    /\ VadInv(loud, detector.vad) /\ OpenInv
    /\ CutBefore(finals, Len(loud) - Len(buffer) - Len(detector.preRoll))

(* All speech is in the buffer or in a turn that was submitted; and the    *)
(* buffer is that turn, or has nothing of it.                              *)
SpeechInv ==
  ingest # "failed" /\ ~tailEnds =>
    /\ \A n \in 1..Len(loud) :
         IsSpeech(loud, n) =>
           n \in ToSet(buffer) \/ \E i \in 1..Len(finals) : n \in ToSet(finals[i].frames)
    /\ \A i \in 1..Len(finals) :
         \/ ToSet(buffer) = ToSet(finals[i].frames)
         \/ \A n \in ToSet(buffer) : n \notin ToSet(finals[i].frames)

CutInv == FinalsInv /\ TurnInv /\ SpeechInv

---------------------------------------------------------------------------
(* Hypotheses. *)

(* All but the last are finals, and not too many.                          *)
QueueOk(q) ==
  /\ Len(q) <= MaxPending + 1 /\ FinalsIn(q) <= MaxPending
  /\ \A i \in 1..(Len(q) - 1) : q[i].final

(* While the source runs, a partial that waits is of the open turn.        *)
QueueInv ==
  /\ QueueOk(queue)
  /\ ingest = "running" => \A i \in 1..Len(queue) : ~queue[i].final => queue[i].turn = turn

(* What HypothesesInOrder says of a hypothesis a and a later one b. *)
Before(a, b) ==
  a.turn < b.turn \/ (a.turn = b.turn /\ ~a.final /\ IsPrefix(a.frames, b.frames))

Elems(q) == {q[i] : i \in 1..Len(q)}
InOrder(q) == \A i, j \in 1..Len(q) : i < j => Before(q[i], q[j])
AllBefore(S, T) == \A a \in S, b \in T : Before(a, b)

(* The hypotheses that wait in an output queue.                            *)
Tokens(o) == {i \in 1..Len(o) : o[i].kind = "tokens"}
Hyps(o) == {o[i].hyp : i \in Tokens(o)}
TokensInOrder(o) == \A i, j \in Tokens(o) : i < j => Before(o[i].hyp, o[j].hyp)

InHand == IF pump = "busy" THEN {request} ELSE {}
Ahead  == Elems(emitted) \cup Hyps(out) \cup InHand

(* r comes before whatever is still submitted. *)
Past(r) ==
  /\ 1 <= r.turn /\ r.turn <= turns
  /\ r.turn = turn => ~r.final /\ IsPrefix(r.frames, buffer)

(* From the worker to the caller. *)
DownstreamInv ==
  /\ InOrder(emitted) /\ TokensInOrder(out)
  /\ AllBefore(Elems(emitted), Hyps(out) \cup InHand) /\ AllBefore(Hyps(out), InHand)

FlowInv ==
  /\ DownstreamInv
  /\ InOrder(queue) /\ AllBefore(Ahead, Elems(queue))
  /\ ingest = "running" => \A r \in Ahead \cup Elems(queue) : Past(r)

WhisperInv == Types /\ CutInv /\ QueueInv /\ FlowInv

---------------------------------------------------------------------------
(* Lemmas about the detector. *)

(* A verdict depends on the frames up to its own only.                     *)
LEMMA SpeechKeeps ==
  ASSUME NEW h \in Seq(BOOLEAN), NEW x \in BOOLEAN
  PROVE  /\ Append(h, x) \in Seq(BOOLEAN) /\ Len(Append(h, x)) = Len(h) + 1
         /\ \A i \in 1..Len(h) : Append(h, x)[i] = h[i]
         /\ Append(h, x)[Len(h) + 1] = x
         /\ \A i \in 1..Len(h) : IsSpeech(Append(h, x), i) <=> IsSpeech(h, i)
         /\ IsSpeech(Append(h, x), Len(h) + 1)
              <=> x \/ \E j \in 1..Len(h) : h[j] /\ Len(h) + 1 - j < Hangover
<1> DEFINE more == Append(h, x)
<1>1. /\ more \in Seq(BOOLEAN) /\ Len(more) = Len(h) + 1 /\ Len(h) \in Nat
      /\ \A i \in 1..Len(h) : more[i] = h[i]
      /\ more[Len(h) + 1] = x
  BY AppendProperties
<1> HIDE DEF more
<1>2. \A i \in 1..Len(h) : IsSpeech(more, i) <=> IsSpeech(h, i)
  BY <1>1, SMTT(30) DEF IsSpeech
<1>3. IsSpeech(more, Len(h) + 1)
        <=> x \/ \E j \in 1..Len(h) : h[j] /\ Len(h) + 1 - j < Hangover
  BY <1>1 DEF IsSpeech
<1> QED
  BY <1>1, <1>2, <1>3 DEF more

LEMMA VadRecord ==
  ASSUME NEW b \in BOOLEAN, NEW s \in Nat
  PROVE  [inSpeech |-> b, silence |-> s] \in Vad
BY DEF Vad

(* is_speech(): the verdict goes on being what IsSpeech says.              *)
LEMMA VadStep ==
  ASSUME NEW h \in Seq(BOOLEAN), NEW x \in BOOLEAN, NEW vad \in Vad, VadInv(h, vad)
  PROVE  LET after == VadAfter(vad, [loud |-> x])
         IN  after \in Vad /\ VadInv(Append(h, x), after)
<1> DEFINE n == Len(h)
<1>1. /\ n \in Nat /\ Hangover \in Nat /\ vad.inSpeech \in BOOLEAN /\ vad.silence \in Nat
  BY HangoverAssumption DEF Vad
<1> PICK more : more = Append(h, x)
  OBVIOUS
<1> PICK v : v = VadAfter(vad, [loud |-> x])
  OBVIOUS
<1>2. /\ more \in Seq(BOOLEAN) /\ Len(more) = n + 1
      /\ \A i \in 1..n : more[i] = h[i]
      /\ more[n + 1] = x
      /\ IsSpeech(more, n + 1) <=> x \/ \E j \in 1..n : h[j] /\ n + 1 - j < Hangover
  BY SpeechKeeps
<1>3. ASSUME v \in Vad, v.inSpeech <=> IsSpeech(more, n + 1),
             v.inSpeech => /\ v.silence < n + 1 /\ more[(n + 1) - v.silence]
                           /\ \A i \in ((n + 1) - v.silence + 1)..(n + 1) : ~more[i]
      PROVE  v \in Vad /\ VadInv(more, v)
  <2>1. n + 1 > 0
    BY <1>1
  <2> QED
    BY <1>2, <1>3, <2>1 DEF VadInv
<1>4. CASE x
  <2>1. v = [inSpeech |-> TRUE, silence |-> 0]
    BY <1>4 DEF VadAfter
  <2>2. v \in Vad
    BY <2>1, VadRecord
  <2>3. v.inSpeech /\ v.silence = 0
    BY <2>1
  <2>4. v.silence < n + 1 /\ more[(n + 1) - v.silence]
    BY <1>1, <1>2, <1>4, <2>3
  <2>5. \A i \in ((n + 1) - v.silence + 1)..(n + 1) : ~more[i]
    BY <1>1, <2>3
  <2>6. IsSpeech(more, n + 1)
    BY <1>2, <1>4
  <2> QED
    BY <2>2, <2>3, <2>4, <2>5, <2>6, <1>3
<1>5. CASE ~x /\ vad.inSpeech
  <2>1. v = [inSpeech |-> vad.silence + 1 < Hangover, silence |-> vad.silence + 1]
    BY <1>5 DEF VadAfter
  <2>2. /\ vad.silence < n /\ h[n - vad.silence]
        /\ \A i \in (n - vad.silence + 1)..n : ~h[i]
    BY <1>1, <1>5 DEF VadInv
  <2>3. (\E j \in 1..n : h[j] /\ n + 1 - j < Hangover) <=> vad.silence + 1 < Hangover
    <3>1. ASSUME vad.silence + 1 < Hangover
          PROVE  \E j \in 1..n : h[j] /\ n + 1 - j < Hangover
      <4>1. n - vad.silence \in 1..n /\ n + 1 - (n - vad.silence) < Hangover
        BY <1>1, <2>2, <3>1
      <4> QED
        BY <2>2, <4>1
    <3>2. ASSUME NEW j \in 1..n, h[j], n + 1 - j < Hangover
          PROVE  vad.silence + 1 < Hangover
      <4>1. j <= n - vad.silence
        <5> SUFFICES ASSUME j > n - vad.silence PROVE FALSE
          BY <1>1
        <5>1. j \in (n - vad.silence + 1)..n
          BY <1>1
        <5> QED
          BY <2>2, <3>2, <5>1
      <4> QED
        BY <1>1, <2>2, <3>2, <4>1
    <3> QED
      BY <3>1, <3>2
  <2>4. \A i \in ((n + 1) - (vad.silence + 1) + 1)..(n + 1) : ~more[i]
    <3>1. ASSUME NEW i \in ((n + 1) - (vad.silence + 1) + 1)..(n + 1) PROVE ~more[i]
      <4>1. i = n + 1 \/ i \in (n - vad.silence + 1)..n
        BY <1>1
      <4>2. CASE i = n + 1
        BY <1>2, <1>5, <4>2
      <4>3. CASE i \in (n - vad.silence + 1)..n
        <5>1. i \in 1..n
          BY <1>1, <2>2, <4>3
        <5> QED
          BY <1>2, <2>2, <4>3, <5>1
      <4> QED
        BY <4>1, <4>2, <4>3
    <3> QED
      BY <3>1
  <2>5. /\ vad.silence + 1 < n + 1 /\ (n + 1) - (vad.silence + 1) = n - vad.silence
        /\ more[n - vad.silence]
    <3>1. n - vad.silence \in 1..n
      BY <1>1, <2>2
    <3> QED
      BY <1>1, <1>2, <2>2, <3>1, SMTT(30)
  <2>6. v \in Vad /\ (v.inSpeech <=> IsSpeech(more, n + 1))
    <3>1. v \in Vad /\ (v.inSpeech <=> vad.silence + 1 < Hangover)
      <4>1. CASE vad.silence + 1 < Hangover
        <5>1. v = [inSpeech |-> TRUE, silence |-> vad.silence + 1]
          BY <1>5, <4>1 DEF VadAfter
        <5>2. vad.silence + 1 \in Nat
          BY <1>1
        <5>3. v \in Vad
          BY <5>1, <5>2, VadRecord
        <5>4. v.inSpeech
          BY <5>1
        <5> QED
          BY <4>1, <5>3, <5>4
      <4>2. CASE ~(vad.silence + 1 < Hangover)
        <5>0. (vad.silence + 1 < Hangover) = FALSE
          BY <4>2
        <5>1. v = [inSpeech |-> FALSE, silence |-> vad.silence + 1]
          BY <2>1, <5>0, Zenon
        <5>2. vad.silence + 1 \in Nat
          BY <1>1
        <5>3. v \in Vad
          BY <5>1, <5>2, VadRecord
        <5>4. ~v.inSpeech
          BY <5>1
        <5> QED
          BY <4>2, <5>3, <5>4
      <4> QED
        BY <4>1, <4>2
    <3>2. IsSpeech(more, n + 1) <=> \E j \in 1..n : h[j] /\ n + 1 - j < Hangover
      BY <1>2, <1>5
    <3> QED
      BY <2>3, <3>1, <3>2
  <2>7. v.silence = vad.silence + 1
    BY <2>1
  <2> QED
    BY <1>3, <2>4, <2>5, <2>6, <2>7
<1>6. CASE ~x /\ ~vad.inSpeech
  <2>1. v = vad
    BY <1>6 DEF VadAfter
  <2>2. ~\E j \in 1..n : h[j] /\ n + 1 - j < Hangover
    <3> SUFFICES ASSUME NEW j \in 1..n, h[j], n + 1 - j < Hangover PROVE FALSE
      OBVIOUS
    <3>1. n > 0 /\ IsSpeech(h, n)
      <4>1. n > 0 /\ n \in Nat /\ n - j < Hangover
        BY <1>1
      <4> QED
        BY <4>1 DEF IsSpeech
    <3> QED
      BY <1>6, <3>1 DEF VadInv
  <2> QED
    BY <1>1, <1>2, <1>3, <1>6, <2>1, <2>2
<1> QED
  BY <1>4, <1>5, <1>6

(* Past silence is not changed by another frame, nor is past speech.       *)
LEMMA QuietKeeps ==
  ASSUME NEW h \in Seq(BOOLEAN), NEW x \in BOOLEAN, NEW a \in Int, NEW b \in Int, b <= Len(h)
  PROVE  Quiet(Append(h, x), a, b) <=> Quiet(h, a, b)
<1>1. Len(h) \in Nat
  OBVIOUS
<1>2. \A m \in a..b : (m \in 1..Len(h) <=> m \in 1..(Len(h) + 1))
  BY <1>1
<1> QED
  BY <1>2, SpeechKeeps DEF Quiet

LEMMA PauseProperties == Pause \in Nat /\ Pause >= 1 /\ PreRoll \in Nat /\ EndSilence \in Nat
<1>1. PreRoll \in Nat /\ EndSilence \in Nat
  BY WhisperAssumption
<1> QED
  BY <1>1 DEF Pause

LEMMA CutRightKeeps ==
  ASSUME NEW h \in Seq(BOOLEAN), NEW x \in BOOLEAN, NEW q \in Seq(Nat), NEW n \in Nat,
         n <= Len(h), CutRight(h, q, n)
  PROVE  CutRight(Append(h, x), q, n)
<1>1. Len(q) \in Nat /\ Len(h) \in Nat
  OBVIOUS
<1> DEFINE first == n - Len(q) + 1
<1>2. ~Quiet(Append(h, x), first, Least(first + PreRoll, n))
  <2>1. Least(first + PreRoll, n) \in Int /\ Least(first + PreRoll, n) <= Len(h) /\ first \in Int
    BY <1>1, PauseProperties DEF Least
  <2> QED
    BY <2>1, QuietKeeps DEF CutRight
<1>3. ASSUME NEW k \in first..n, k - Pause + 1 >= first, k > first + PreRoll
      PROVE  ~Quiet(Append(h, x), k - Pause + 1, k)
  <2>1. k \in Int /\ k - Pause + 1 \in Int /\ k <= Len(h)
    BY <1>1, PauseProperties
  <2> QED
    BY <1>3, <2>1, QuietKeeps DEF CutRight
<1> QED
  BY <1>2, <1>3 DEF CutRight

LEMMA EndedKeeps ==
  ASSUME NEW h \in Seq(BOOLEAN), NEW x \in BOOLEAN, NEW q, NEW n \in Nat, Ended(h, q, n)
  PROVE  Ended(Append(h, x), q, n)
<1>1. CASE Len(q) >= MaxUtterance
  BY <1>1 DEF Ended
<1>2. CASE n < Len(h) /\ Quiet(h, n + 2 - Pause, n + 1)
  <2>1. n + 1 \in Int /\ n + 2 - Pause \in Int /\ n + 1 <= Len(h) /\ n < Len(h) + 1
    BY <1>2, PauseProperties
  <2> QED
    BY <1>2, <2>1, QuietKeeps, SpeechKeeps DEF Ended
<1> QED
  BY <1>1, <1>2 DEF Ended

(* A turn begins with the pre-roll and a frame of speech.                  *)
LEMMA CutRightStarts ==
  ASSUME NEW h \in Seq(BOOLEAN), h # <<>>, NEW q \in Seq(Nat), Stretch(q, Len(h)),
         q # <<>>, Len(q) <= PreRoll + 1, IsSpeech(h, Len(h))
  PROVE  CutRight(h, q, Len(h)) /\ SilenceInv(h, 0)
<1> DEFINE n == Len(h)
           first == n - Len(q) + 1
<1>1. n \in Nat /\ n # 0 /\ Len(q) \in Nat /\ Len(q) # 0 /\ Len(q) <= n
  BY EmptySeq DEF Stretch
<1>2. n \in 1..Len(h) /\ n \in first..n /\ first \in Int /\ first + PreRoll >= n
  BY <1>1, PauseProperties
<1>3. Least(first + PreRoll, n) = n
  BY <1>1, <1>2, PauseProperties DEF Least
<1>4. ~Quiet(h, first, n)
  BY <1>2 DEF Quiet
<1>5. \A k \in first..n : ~(k > first + PreRoll)
  BY <1>1, <1>2, PauseProperties
<1>6. SilenceInv(h, 0)
  BY <1>1, PauseProperties DEF SilenceInv
<1> QED
  BY <1>3, <1>4, <1>5, <1>6 DEF CutRight

(* A turn goes on, with speech or with a silence that does not end it.     *)
LEMMA CutRightGrows ==
  ASSUME NEW h \in Seq(BOOLEAN), NEW x \in BOOLEAN, NEW q \in Seq(Nat), q # <<>>,
         NEW s \in Nat, Stretch(q, Len(h)), CutRight(h, q, Len(h)),
         SilenceInv(Append(h, x), s)
  PROVE  CutRight(Append(h, x), Append(q, Len(h) + 1), Len(h) + 1)
<1> DEFINE n == Len(h)
           more == Append(h, x)
           p == Append(q, n + 1)
           first == n - Len(q) + 1
<1>1. /\ n \in Nat /\ Len(q) \in Nat /\ Len(q) # 0 /\ Len(q) <= n
      /\ Len(p) = Len(q) + 1 /\ Len(more) = n + 1
  BY AppendProperties, SpeechKeeps, EmptySeq DEF Stretch
<1>2. (n + 1) - Len(p) + 1 = first /\ first \in Int
  BY <1>1
<1>3. CutRight(more, q, n)
  BY <1>1, CutRightKeeps
<1>4. ~Quiet(more, first, Least(first + PreRoll, n + 1))
  <2>1. Least(first + PreRoll, n) \in Int /\ Least(first + PreRoll, n + 1) \in Int
        /\ Least(first + PreRoll, n) <= Least(first + PreRoll, n + 1)
    BY <1>1, <1>2, PauseProperties DEF Least
  <2>2. first..Least(first + PreRoll, n) \subseteq first..Least(first + PreRoll, n + 1)
    BY <1>2, <2>1
  <2> QED
    BY <1>3, <2>2 DEF CutRight, Quiet
<1>5. ASSUME NEW k \in first..(n + 1), k - Pause + 1 >= first, k > first + PreRoll
      PROVE  ~Quiet(more, k - Pause + 1, k)
  <2>1. CASE k \in first..n
    BY <1>3, <1>5, <2>1 DEF CutRight
  <2>2. CASE k = n + 1
    <3>1. s < Pause /\ s < n + 1 /\ IsSpeech(more, (n + 1) - s)
      BY <1>1 DEF SilenceInv
    <3>2. (n + 1) - s \in (k - Pause + 1)..k /\ (n + 1) - s \in 1..Len(more)
      BY <1>1, <2>2, <3>1, PauseProperties
    <3> QED
      BY <3>1, <3>2 DEF Quiet
  <2> QED
    BY <1>1, <1>2, <2>1, <2>2
<1> HIDE DEF p, more
<1>6. \A k \in ((n + 1) - Len(p) + 1)..(n + 1) :
        k - Pause + 1 >= (n + 1) - Len(p) + 1 /\ k > (n + 1) - Len(p) + 1 + PreRoll
          => ~Quiet(more, k - Pause + 1, k)
  BY <1>2, <1>5
<1>7. CutRight(more, p, n + 1)
  BY <1>2, <1>4, <1>6 DEF CutRight
<1> QED
  BY <1>7 DEF more, p

(* The silence behind the last frame, after one more.                      *)
LEMMA SilenceStep ==
  ASSUME NEW h \in Seq(BOOLEAN), NEW x \in BOOLEAN, NEW s \in Nat, SilenceInv(h, s)
  PROVE  LET more == Append(h, x)
         IN  /\ IsSpeech(more, Len(more)) => SilenceInv(more, 0)
             /\ ~IsSpeech(more, Len(more)) /\ s + 1 < Pause => SilenceInv(more, s + 1)
             /\ ~IsSpeech(more, Len(more)) /\ s + 1 >= Pause
                  => Quiet(more, Len(h) + 2 - Pause, Len(h) + 1)
<1> PICK more : more = Append(h, x)
  OBVIOUS
<1>1. /\ Len(h) \in Nat /\ Len(more) = Len(h) + 1
      /\ \A i \in 1..Len(h) : IsSpeech(more, i) <=> IsSpeech(h, i)
  BY SpeechKeeps
<1>2. /\ s < Pause /\ s < Len(h) /\ IsSpeech(h, Len(h) - s)
      /\ \A m \in (Len(h) - s + 1)..Len(h) : ~IsSpeech(h, m)
  BY DEF SilenceInv
<1>3. ASSUME IsSpeech(more, Len(more)) PROVE SilenceInv(more, 0)
  BY <1>1, <1>3, PauseProperties DEF SilenceInv
<1>4. ASSUME ~IsSpeech(more, Len(more))
      PROVE  \A m \in (Len(h) - s + 1)..(Len(h) + 1) : ~IsSpeech(more, m)
  <2> SUFFICES ASSUME NEW m \in (Len(h) - s + 1)..(Len(h) + 1) PROVE ~IsSpeech(more, m)
    OBVIOUS
  <2>1. CASE m = Len(h) + 1
    BY <1>1, <1>4, <2>1
  <2>2. CASE m # Len(h) + 1
    <3>1. m \in (Len(h) - s + 1)..Len(h) /\ m \in 1..Len(h)
      BY <1>1, <1>2, <2>2
    <3> QED
      BY <1>1, <1>2, <3>1
  <2> QED
    BY <2>1, <2>2
<1>5. ASSUME ~IsSpeech(more, Len(more)), s + 1 < Pause PROVE SilenceInv(more, s + 1)
  <2>1. /\ s + 1 < Len(more) /\ Len(more) - (s + 1) = Len(h) - s /\ Len(h) - s \in 1..Len(h)
        /\ Len(more) - (s + 1) + 1 = Len(h) - s + 1
    BY <1>1, <1>2
  <2>2. IsSpeech(more, Len(more) - (s + 1))
    BY <1>1, <1>2, <2>1
  <2> QED
    BY <1>1, <1>4, <1>5, <2>1, <2>2 DEF SilenceInv
<1>6. ASSUME ~IsSpeech(more, Len(more)), s + 1 >= Pause
      PROVE  Quiet(more, Len(h) + 2 - Pause, Len(h) + 1)
  <2>1. Len(h) + 2 - Pause >= Len(h) - s + 1
    BY <1>1, <1>6, PauseProperties
  <2>2. \A m \in (Len(h) + 2 - Pause)..(Len(h) + 1) : m \in (Len(h) - s + 1)..(Len(h) + 1)
    BY <1>1, <2>1, PauseProperties
  <2> QED
    BY <1>4, <1>6, <2>2 DEF Quiet
<1> QED
  BY <1>3, <1>5, <1>6

(* An action leaves a detector that differs from d in its partial clock.    *)
ActionIs(a, d, ends, starts, frames) ==
  /\ a.detector \in Detector
  /\ a.detector.vad = d.vad /\ a.detector.preRoll = d.preRoll
  /\ a.detector.inTurn = d.inTurn /\ a.detector.length = d.length
  /\ a.detector.silence = d.silence
  /\ a.ends = ends /\ a.starts = starts /\ a.frames = frames
  /\ a.due \in BOOLEAN /\ (a.due => frames # <<>>)

LEMMA ActionSays ==
  ASSUME NEW d \in Detector, NEW ends \in BOOLEAN, NEW starts \in BOOLEAN,
         NEW frames \in Seq(Nat), NEW a, a = Action(d, ends, starts, frames)
  PROVE  ActionIs(a, d, ends, starts, frames)
<1>1. /\ a.ends = ends /\ a.starts = starts /\ a.frames = frames
      /\ a.due = (frames # <<>> /\ d.partial >= PartialInterval)
      /\ a.detector = IF frames # <<>> /\ d.partial >= PartialInterval
                        THEN [d EXCEPT !.partial = 0] ELSE d
  BY DEF Action
<1>2. a.due \in BOOLEAN /\ (a.due => frames # <<>>)
  BY <1>1, Zenon
<1>3. \/ a.detector = d
      \/ a.detector = [d EXCEPT !.partial = 0]
  BY <1>1
<1>4. CASE a.detector = d
  BY <1>1, <1>2, <1>4 DEF ActionIs
<1>5. CASE a.detector = [d EXCEPT !.partial = 0]
  <2>1. a.detector \in Detector
    <3>1. d = [vad |-> d.vad, preRoll |-> d.preRoll, inTurn |-> d.inTurn,
               length |-> d.length, silence |-> d.silence, partial |-> d.partial]
      BY DEF Detector
    <3>2. /\ d.vad \in Vad /\ d.preRoll \in Seq(Nat) /\ d.inTurn \in BOOLEAN
          /\ d.length \in Nat /\ d.silence \in Nat
      BY DEF Detector
    <3>3. a.detector = [vad |-> d.vad, preRoll |-> d.preRoll, inTurn |-> d.inTurn,
                        length |-> d.length, silence |-> d.silence, partial |-> 0]
      BY <1>5, <3>1
    <3> QED
      BY <3>2, <3>3 DEF Detector
  <2>2. /\ a.detector.vad = d.vad /\ a.detector.preRoll = d.preRoll
        /\ a.detector.inTurn = d.inTurn
    BY <1>5 DEF Detector
  <2>3. a.detector.length = d.length /\ a.detector.silence = d.silence
    BY <1>5 DEF Detector
  <2> QED
    BY <1>1, <1>2, <2>1, <2>2, <2>3 DEF ActionIs
<1> QED
  BY <1>3, <1>4, <1>5

(* The pre-roll keeps the last frames.                                     *)
RetainedIs(r, d, n) ==
  /\ r \in Detector /\ r.vad = d.vad /\ r.inTurn = d.inTurn
  /\ r.preRoll = IF Len(d.preRoll) + 1 > PreRoll THEN Tail(Append(d.preRoll, n))
                 ELSE Append(d.preRoll, n)

LEMMA RetainedSays ==
  ASSUME NEW d \in Detector, NEW n \in Nat, NEW r, r = Retained(d, n)
  PROVE  RetainedIs(r, d, n)
<1>1. d.preRoll \in Seq(Nat)
  BY DEF Detector
<1> PICK q : q = Append(d.preRoll, n)
  OBVIOUS
<1>2. /\ q \in Seq(Nat) /\ q # <<>> /\ Len(q) = Len(d.preRoll) + 1
  BY <1>1, AppendProperties
<1> PICK p : p = IF Len(q) > PreRoll THEN Tail(q) ELSE q
  OBVIOUS
<1>3. p \in Seq(Nat)
  BY <1>2, HeadTailProperties
<1>4. r = [d EXCEPT !.preRoll = p]
  BY DEF Retained
<1> QED
  BY <1>2, <1>3, <1>4 DEF Detector, RetainedIs

LEMMA ClosedSays ==
  ASSUME NEW d \in Detector, NEW c, c = Closed(d)
  PROVE  c \in Detector /\ c.vad = d.vad /\ c.inTurn = FALSE /\ c.preRoll = <<>>
<1>1. d.vad \in Vad /\ <<>> \in Seq(Nat) /\ 0 \in Nat /\ FALSE \in BOOLEAN
  BY EmptySeq DEF Detector
<1>2. c = [vad |-> d.vad, preRoll |-> <<>>, inTurn |-> FALSE, length |-> 0,
          silence |-> 0, partial |-> 0]
  BY DEF Closed, NotInTurn
<1>3. c \in Detector
  BY <1>1, <1>2 DEF Detector
<1> QED
  BY <1>2, <1>3

LEMMA StartSays ==
  ASSUME NEW d \in Detector, NEW ends \in BOOLEAN, NEW n \in Nat,
         NEW a, a = Start(d, ends, n)
  PROVE  /\ a.detector \in Detector
         /\ a.detector.vad = d.vad /\ a.detector.preRoll = <<>>
         /\ a.detector.inTurn = TRUE /\ a.detector.length = Len(a.frames)
         /\ a.detector.silence = 0
         /\ a.ends = ends /\ a.starts = TRUE
         /\ a.frames = Append(d.preRoll, n) /\ a.frames \in Seq(Nat)
         /\ a.due \in BOOLEAN /\ (a.due => a.frames # <<>>)
<1> PICK frames : frames = Append(d.preRoll, n)
  OBVIOUS
<1>1. frames \in Seq(Nat) /\ Len(frames) = Len(d.preRoll) + 1 /\ Len(frames) \in Nat
      /\ d.vad \in Vad
  <2>1. d.preRoll \in Seq(Nat) /\ d.vad \in Vad
    BY DEF Detector
  <2> QED
    BY <2>1, AppendProperties, LenProperties
<1> PICK e : e = [vad |-> d.vad, preRoll |-> <<>>, inTurn |-> TRUE, length |-> Len(frames),
                  silence |-> 0, partial |-> Len(frames)]
  OBVIOUS
<1>2. e \in Detector
  <2>1. <<>> \in Seq(Nat) /\ TRUE \in BOOLEAN /\ 0 \in Nat
    BY EmptySeq
  <2> QED
    BY <1>1, <2>1 DEF Detector
<1>3. a = Action(e, ends, TRUE, frames) /\ TRUE \in BOOLEAN
  BY DEF Start
<1>4. /\ e.vad = d.vad /\ e.preRoll = <<>> /\ e.inTurn = TRUE
      /\ e.length = Len(frames) /\ e.silence = 0
  OBVIOUS
<1>5. ActionIs(a, e, ends, TRUE, frames)
  BY <1>1, <1>2, <1>3, ActionSays
<1> QED
  BY <1>1, <1>4, <1>5, Zenon DEF ActionIs

(* What feed() can make of frame n, when the detector was d and its VAD's  *)
(* verdict is speech: a turn starts, perhaps in place of a longer one; no  *)
(* turn is open, perhaps because this frame ends it; or a turn goes on.    *)
StartsTurn(d, a, n) ==
  /\ a.starts = TRUE
  /\ d.inTurn => a.ends = TRUE /\ d.length + 1 > MaxUtterance /\ a.frames = Append(<<>>, n)
  /\ ~d.inTurn => a.ends = FALSE /\ a.frames = Append(d.preRoll, n)
  /\ a.detector.inTurn = TRUE /\ a.detector.preRoll = <<>>
  /\ a.detector.length = Len(a.frames) /\ a.detector.silence = 0

LeavesQuiet(d, a, n) ==
  /\ a.starts = FALSE /\ a.frames = <<>> /\ a.detector.inTurn = FALSE /\ a.ends = d.inTurn
  /\ d.inTurn => d.length + 1 > MaxUtterance \/ d.silence + 1 >= EndSilence
  /\ \E before :
       /\ before = IF d.inTurn THEN <<>> ELSE d.preRoll
       /\ a.detector.preRoll = IF Len(before) + 1 > PreRoll THEN Tail(Append(before, n))
                               ELSE Append(before, n)

GoesOn(d, a, n, speech) ==
  /\ d.inTurn /\ a.starts = FALSE /\ a.ends = FALSE /\ a.frames = <<n>>
  /\ a.detector.inTurn = TRUE /\ a.detector.preRoll = d.preRoll
  /\ a.detector.length = d.length + 1
  /\ speech => a.detector.silence = 0
  /\ ~speech => a.detector.silence = d.silence + 1 /\ d.silence + 1 < EndSilence

ActionTypes(a) ==
  /\ a.detector \in Detector /\ a.ends \in BOOLEAN /\ a.starts \in BOOLEAN
  /\ a.frames \in Seq(Nat) /\ a.due \in BOOLEAN /\ (a.due => a.frames # <<>>)

LEMMA FeedSays ==
  ASSUME NEW d \in Detector, NEW n \in Nat, NEW x \in BOOLEAN,
         NEW v \in Vad, v = VadAfter(d.vad, [loud |-> x]),
         NEW a, a = Feed(d, n, x)
  PROVE  /\ ActionTypes(a) /\ a.detector.vad = v
         /\ \/ v.inSpeech /\ StartsTurn(d, a, n)
            \/ ~v.inSpeech /\ LeavesQuiet(d, a, n)
            \/ GoesOn(d, a, n, v.inSpeech)
<1> PICK e : e = [d EXCEPT !.vad = v]
  OBVIOUS
<1>1. /\ e \in Detector /\ e.vad = v /\ e.preRoll = d.preRoll /\ e.inTurn = d.inTurn
      /\ e.length = d.length /\ e.silence = d.silence
      /\ e.preRoll \in Seq(Nat) /\ e.length \in Nat /\ e.silence \in Nat /\ e.partial \in Nat
  BY DEF Detector
<1>2. a = IF e.inTurn THEN InTurn(e, n)
          ELSE IF e.vad.inSpeech THEN Start(e, FALSE, n)
          ELSE Action(Retained(e, n), FALSE, FALSE, <<>>)
  BY DEF Feed
<1>3. <<>> \in Seq(Nat) /\ <<n>> \in Seq(Nat) /\ TRUE \in BOOLEAN /\ FALSE \in BOOLEAN
      /\ e.inTurn \in BOOLEAN /\ v.inSpeech \in BOOLEAN
  BY <1>1 DEF Detector, Vad
<1>4. CASE ~e.inTurn /\ v.inSpeech
  <2>1. a = Start(e, FALSE, n)
    BY <1>1, <1>2, <1>4
  <2>2. /\ a.detector \in Detector
        /\ a.detector.vad = e.vad /\ a.detector.preRoll = <<>>
        /\ a.detector.inTurn = TRUE /\ a.detector.length = Len(a.frames)
        /\ a.detector.silence = 0
        /\ a.ends = FALSE /\ a.starts = TRUE
        /\ a.frames = Append(e.preRoll, n) /\ a.frames \in Seq(Nat)
        /\ a.due \in BOOLEAN /\ (a.due => a.frames # <<>>)
    BY <1>1, <1>3, <2>1, StartSays, Zenon
  <2> QED
    BY <1>1, <1>3, <1>4, <2>2, Zenon DEF ActionTypes, StartsTurn
<1>5. CASE ~e.inTurn /\ ~v.inSpeech
  <2> PICK r : r = Retained(e, n)
    OBVIOUS
  <2>1. a = Action(r, FALSE, FALSE, <<>>)
    BY <1>1, <1>2, <1>5
  <2>2. RetainedIs(r, e, n)
    BY <1>1, RetainedSays
  <2>3. ActionIs(a, r, FALSE, FALSE, <<>>)
    BY <1>3, <2>1, <2>2, ActionSays DEF RetainedIs
  <2>4. LeavesQuiet(d, a, n)
    <3>1. e.preRoll = IF d.inTurn THEN <<>> ELSE d.preRoll
      BY <1>1, <1>5
    <3> QED
      BY <1>1, <1>3, <1>5, <2>2, <2>3, <3>1, Zenon DEF LeavesQuiet, ActionIs, RetainedIs
  <2> QED
    BY <1>1, <1>3, <1>5, <2>2, <2>3, <2>4, Zenon DEF ActionTypes, ActionIs, RetainedIs
<1>6. CASE e.inTurn
  <2> PICK s \in Nat : s = IF v.inSpeech THEN 0 ELSE e.silence + 1
    BY <1>1
  <2> PICK m : m = [e EXCEPT !.length = @ + 1, !.partial = @ + 1, !.silence = s]
    OBVIOUS
  <2>1. /\ m \in Detector /\ m.length = e.length + 1 /\ m.silence = s
        /\ m.vad = v /\ m.preRoll = e.preRoll /\ m.inTurn = e.inTurn
    <3>1. e.length + 1 \in Nat /\ e.partial + 1 \in Nat
      BY <1>1
    <3> QED
      BY <1>1, <3>1 DEF Detector
  <2>2. a = CASE m.length > MaxUtterance /\ v.inSpeech  -> Start(Closed(e), TRUE, n)
              [] m.length > MaxUtterance /\ ~v.inSpeech ->
                   Action(Retained(Closed(e), n), TRUE, FALSE, <<>>)
              [] m.length <= MaxUtterance /\ ~v.inSpeech /\ m.silence >= EndSilence ->
                   Action(Retained(Closed(e), n), TRUE, FALSE, <<>>)
              [] OTHER -> Action(m, FALSE, FALSE, <<n>>)
    BY <1>1, <1>2, <1>6 DEF InTurn
  <2> PICK c : c = Closed(e)
    OBVIOUS
  <2>3. c \in Detector /\ c.vad = v /\ c.inTurn = FALSE /\ c.preRoll = <<>>
    BY <1>1, ClosedSays
  <2>4. MaxUtterance \in Nat /\ EndSilence \in Nat /\ m.length \in Nat
    BY <1>1, <2>1, WhisperAssumption
  <2>5. CASE m.length > MaxUtterance /\ v.inSpeech
    <3>1. a = Start(c, TRUE, n)
      BY <2>2, <2>4, <2>5
    <3>2. /\ a.detector \in Detector
          /\ a.detector.vad = c.vad /\ a.detector.preRoll = <<>>
          /\ a.detector.inTurn = TRUE /\ a.detector.length = Len(a.frames)
          /\ a.detector.silence = 0
          /\ a.ends = TRUE /\ a.starts = TRUE
          /\ a.frames = Append(c.preRoll, n) /\ a.frames \in Seq(Nat)
          /\ a.due \in BOOLEAN /\ (a.due => a.frames # <<>>)
      BY <1>3, <2>3, <3>1, StartSays, Zenon
    <3>3. d.length + 1 > MaxUtterance
      BY <1>1, <2>1, <2>5
    <3> QED
      BY <1>1, <1>3, <1>6, <2>3, <2>5, <3>2, <3>3, Zenon DEF ActionTypes, StartsTurn
  <2>6. CASE ~v.inSpeech /\ (m.length > MaxUtterance \/ m.silence >= EndSilence)
    <3> PICK r : r = Retained(c, n)
      OBVIOUS
    <3>1. a = Action(r, TRUE, FALSE, <<>>)
      <4>1. CASE m.length > MaxUtterance
        BY <2>2, <2>4, <2>6, <4>1
      <4>2. CASE ~(m.length > MaxUtterance)
        <5>1. m.length <= MaxUtterance
          BY <2>4, <4>2
        <5> QED
          BY <2>2, <2>6, <4>2, <5>1
      <4> QED
        BY <4>1, <4>2
    <3>2. RetainedIs(r, c, n)
      BY <2>3, RetainedSays
    <3>3. d.length + 1 > MaxUtterance \/ d.silence + 1 >= EndSilence
      BY <1>1, <2>1, <2>6
    <3>4. ActionIs(a, r, TRUE, FALSE, <<>>)
      BY <1>3, <3>1, <3>2, ActionSays DEF RetainedIs
    <3>5. LeavesQuiet(d, a, n)
      <4>1. c.preRoll = (IF d.inTurn THEN <<>> ELSE d.preRoll) /\ d.inTurn = TRUE
        BY <1>1, <1>3, <1>6, <2>3
      <4> QED
        BY <2>3, <3>2, <3>3, <3>4, <4>1, ZenonT(60)
        DEF LeavesQuiet, ActionIs, RetainedIs
    <3> QED
      BY <1>3, <2>3, <2>6, <3>2, <3>4, <3>5, ZenonT(60)
      DEF ActionTypes, ActionIs, RetainedIs
  <2>7. CASE /\ ~(m.length > MaxUtterance)
             /\ v.inSpeech \/ ~(m.silence >= EndSilence)
    <3>1. a = Action(m, FALSE, FALSE, <<n>>)
      BY <2>2, <2>4, <2>7
    <3>2. /\ ~v.inSpeech => m.silence = d.silence + 1 /\ d.silence + 1 < EndSilence
          /\ v.inSpeech => m.silence = 0
          /\ m.length = d.length + 1
      BY <1>1, <2>1, <2>4, <2>7
    <3>3. ActionIs(a, m, FALSE, FALSE, <<n>>)
      BY <1>3, <2>1, <3>1, ActionSays
    <3> QED
      BY <1>1, <1>3, <1>6, <2>1, <3>2, <3>3, ZenonT(60)
      DEF ActionTypes, GoesOn, ActionIs
  <2> QED
    BY <2>5, <2>6, <2>7
<1> QED
  BY <1>4, <1>5, <1>6

---------------------------------------------------------------------------
(* Turns are cut right. *)

LEMMA StretchProperties ==
  ASSUME NEW q \in Seq(Nat), NEW n \in Nat, Stretch(q, n)
  PROVE  /\ Len(q) \in Nat /\ Len(q) <= n /\ (q = <<>> <=> Len(q) = 0)
         /\ \A m : m \in ToSet(q) <=> m \in (n - Len(q) + 1)..n
         /\ q # <<>> => LastFrame(q) = n /\ q[1] = n - Len(q) + 1
<1>1. Len(q) \in Nat /\ Len(q) <= n /\ (q = <<>> <=> Len(q) = 0) /\ DOMAIN q = 1..Len(q)
  BY EmptySeq, LenProperties DEF Stretch
<1>2. \A k \in 1..Len(q) : q[k] = n - Len(q) + k
  BY DEF Stretch
<1>3. ASSUME NEW m, m \in ToSet(q) PROVE m \in (n - Len(q) + 1)..n
  <2>1. PICK k \in 1..Len(q) : m = q[k]
    BY <1>1, <1>3 DEF ToSet
  <2> QED
    BY <1>1, <1>2, <2>1
<1>4. ASSUME NEW m \in (n - Len(q) + 1)..n PROVE m \in ToSet(q)
  <2>1. m - (n - Len(q)) \in 1..Len(q) /\ n - Len(q) + (m - (n - Len(q))) = m
    BY <1>1
  <2>2. q[m - (n - Len(q))] = m
    BY <1>2, <2>1
  <2> QED
    BY <1>1, <2>1, <2>2 DEF ToSet
<1>5. q # <<>> => LastFrame(q) = n /\ q[1] = n - Len(q) + 1
  BY <1>1, <1>2 DEF LastFrame
<1> QED
  BY <1>1, <1>3, <1>4, <1>5

LEMMA StretchAppend ==
  ASSUME NEW q \in Seq(Nat), NEW n \in Nat, Stretch(q, n)
  PROVE  /\ Append(q, n + 1) \in Seq(Nat) /\ Append(q, n + 1) # <<>>
         /\ Len(Append(q, n + 1)) = Len(q) + 1 /\ Stretch(Append(q, n + 1), n + 1)
<1> PICK p : p = Append(q, n + 1)
  OBVIOUS
<1>1. /\ p \in Seq(Nat) /\ p # <<>> /\ Len(p) = Len(q) + 1 /\ Len(q) \in Nat
      /\ \A k \in 1..Len(q) : p[k] = q[k]
      /\ p[Len(q) + 1] = n + 1
  BY AppendProperties
<1>2. Len(q) <= n /\ \A k \in 1..Len(q) : q[k] = n - Len(q) + k
  BY DEF Stretch
<1>3. \A k \in 1..Len(p) : p[k] = (n + 1) - Len(p) + k
  <2> SUFFICES ASSUME NEW k \in 1..Len(p) PROVE p[k] = (n + 1) - Len(p) + k
    OBVIOUS
  <2>1. CASE k \in 1..Len(q)
    BY <1>1, <1>2, <2>1
  <2>2. CASE k = Len(q) + 1
    BY <1>1, <1>2, <2>2
  <2> QED
    BY <1>1, <2>1, <2>2
<1> QED
  BY <1>1, <1>2, <1>3 DEF Stretch

LEMMA StretchTail ==
  ASSUME NEW q \in Seq(Nat), NEW n \in Nat, Stretch(q, n), q # <<>>
  PROVE  Tail(q) \in Seq(Nat) /\ Len(Tail(q)) = Len(q) - 1 /\ Stretch(Tail(q), n)
<1> PICK p : p = Tail(q)
  OBVIOUS
<1>1. /\ p \in Seq(Nat) /\ Len(p) = Len(q) - 1 /\ Len(q) \in Nat /\ Len(q) # 0
      /\ \A k \in 1..Len(p) : p[k] = q[k + 1]
  BY HeadTailProperties, EmptySeq
<1>2. Len(q) <= n /\ \A k \in 1..Len(q) : q[k] = n - Len(q) + k
  BY DEF Stretch
<1>3. \A k \in 1..Len(p) : p[k] = n - Len(p) + k
  <2> SUFFICES ASSUME NEW k \in 1..Len(p) PROVE p[k] = n - Len(p) + k
    OBVIOUS
  <2>1. k + 1 \in 1..Len(q) /\ n - Len(q) + (k + 1) = n - Len(p) + k
    BY <1>1
  <2> QED
    BY <1>1, <1>2, <2>1
<1> QED
  BY <1>1, <1>2, <1>3 DEF Stretch

(* The pre-roll after one more frame: the last frames, and not too many.   *)
LEMMA StretchRetained ==
  ASSUME NEW q \in Seq(Nat), NEW n \in Nat, Stretch(q, n), Len(q) <= PreRoll,
         NEW p, p = IF Len(q) + 1 > PreRoll THEN Tail(Append(q, n + 1)) ELSE Append(q, n + 1)
  PROVE  p \in Seq(Nat) /\ Stretch(p, n + 1) /\ Len(p) <= PreRoll /\ Len(p) <= Len(q) + 1
<1> PICK a : a = Append(q, n + 1)
  OBVIOUS
<1>1. /\ a \in Seq(Nat) /\ a # <<>> /\ Len(a) = Len(q) + 1 /\ Stretch(a, n + 1)
      /\ Len(q) \in Nat /\ n + 1 \in Nat
  BY StretchAppend
<1>2. Tail(a) \in Seq(Nat) /\ Len(Tail(a)) = Len(a) - 1 /\ Stretch(Tail(a), n + 1)
  BY <1>1, StretchTail
<1>3. p = IF Len(q) + 1 > PreRoll THEN Tail(a) ELSE a
  OBVIOUS
<1> QED
  BY <1>1, <1>2, <1>3, PauseProperties

LEMMA EmptyStretch ==
  ASSUME NEW n \in Nat
  PROVE  <<>> \in Seq(Nat) /\ Len(<<>>) = 0 /\ Stretch(<<>>, n) /\ \A m : m \notin ToSet(<<>>)
<1>1. <<>> \in Seq(Nat) /\ Len(<<>>) = 0
  BY EmptySeq
<1>2. Stretch(<<>>, n)
  BY <1>1 DEF Stretch
<1>3. \A m : m \in ToSet(<<>>) <=> m \in (n - 0 + 1)..n
  BY <1>1, <1>2, StretchProperties
<1> QED
  BY <1>1, <1>2, <1>3

LEMMA PieceIs ==
  ASSUME NEW h \in Seq(BOOLEAN), NEW q \in Seq(Nat), q # <<>>, NEW n \in Nat, n <= Len(h),
         Stretch(q, n), CutRight(h, q, n)
  PROVE  Piece(h, q) /\ LastFrame(q) = n /\ q[1] = n - Len(q) + 1
BY StretchProperties DEF Piece

LEMMA PieceProperties ==
  ASSUME NEW h \in Seq(BOOLEAN), NEW q \in Seq(Nat), Piece(h, q)
  PROVE  /\ LastFrame(q) \in Nat /\ LastFrame(q) <= Len(h) /\ q[1] \in Nat
         /\ q[1] >= 1 /\ q[1] <= LastFrame(q) /\ Len(q) \in Nat /\ Len(q) # 0
         /\ q[1] = LastFrame(q) - Len(q) + 1
         /\ \A m : m \in ToSet(q) <=> m \in q[1]..LastFrame(q)
<1>1. Len(q) \in Nat /\ Len(q) # 0
  BY EmptySeq DEF Piece
<1>2. LastFrame(q) \in Nat
  BY <1>1, ElementOfSeq DEF LastFrame
<1>3. Stretch(q, LastFrame(q)) /\ q # <<>> /\ LastFrame(q) <= Len(h)
  BY DEF Piece
<1>4. /\ Len(q) <= LastFrame(q) /\ q[1] = LastFrame(q) - Len(q) + 1
      /\ \A m : m \in ToSet(q) <=> m \in (LastFrame(q) - Len(q) + 1)..LastFrame(q)
  BY <1>2, <1>3, StretchProperties
<1> QED
  BY <1>1, <1>2, <1>3, <1>4

LEMMA PieceKeeps ==
  ASSUME NEW h \in Seq(BOOLEAN), NEW x \in BOOLEAN, NEW q \in Seq(Nat), Piece(h, q)
  PROVE  Piece(Append(h, x), q)
<1>1. LastFrame(q) \in Nat /\ LastFrame(q) <= Len(h) /\ Len(h) \in Nat
  BY PieceProperties
<1>2. CutRight(Append(h, x), q, LastFrame(q))
  BY <1>1, CutRightKeeps DEF Piece
<1>3. LastFrame(q) <= Len(Append(h, x))
  BY <1>1, SpeechKeeps
<1> QED
  BY <1>2, <1>3 DEF Piece

(* The audio goes on, and a turn is submitted or not.                      *)
LEMMA FinalsStep ==
  ASSUME Types, FinalsInv,
         loud' = loud \/ \E x \in BOOLEAN : loud' = Append(loud, x),
         eof => eof',
         \/ finals' = finals
         \/ ~eof /\ \E r \in Req :
              /\ finals' = Append(finals, r) /\ Piece(loud', r.frames)
              /\ Ended(loud', r.frames, LastFrame(r.frames)) \/ eof'
              /\ \A i \in 1..Len(finals) : LastFrame(finals[i].frames) < r.frames[1]
  PROVE  FinalsInv'
<1>1. /\ loud \in Seq(BOOLEAN) /\ finals \in Seq(Req) /\ Len(finals) \in Nat
      /\ \A i \in 1..Len(finals) : finals[i] \in Req /\ finals[i].frames \in Seq(Nat)
  <2>1. \A i \in 1..Len(finals) : finals[i] \in Req
    BY ElementOfSeq DEF Types
  <2>2. \A t \in Req : t.frames \in Seq(Nat)
    BY DEF Req
  <2> QED
    BY <2>1, <2>2 DEF Types
<1>2. \A i \in 1..Len(finals) :
        /\ Piece(loud', finals[i].frames)
        /\ \/ Ended(loud', finals[i].frames, LastFrame(finals[i].frames))
           \/ eof /\ i = Len(finals)
  <2> SUFFICES ASSUME NEW i \in 1..Len(finals)
               PROVE  /\ Piece(loud', finals[i].frames)
                      /\ \/ Ended(loud', finals[i].frames, LastFrame(finals[i].frames))
                         \/ eof /\ i = Len(finals)
    OBVIOUS
  <2>1. /\ Piece(loud, finals[i].frames)
        /\ \/ Ended(loud, finals[i].frames, LastFrame(finals[i].frames))
           \/ eof /\ i = Len(finals)
    BY DEF FinalsInv
  <2>2. finals[i].frames \in Seq(Nat) /\ LastFrame(finals[i].frames) \in Nat
    BY <1>1, <2>1, PieceProperties
  <2>3. CASE loud' = loud
    BY <2>1, <2>3
  <2>4. ASSUME NEW x \in BOOLEAN, loud' = Append(loud, x)
        PROVE  /\ Piece(loud', finals[i].frames)
               /\ \/ Ended(loud', finals[i].frames, LastFrame(finals[i].frames))
                  \/ eof /\ i = Len(finals)
    <3>1. Piece(Append(loud, x), finals[i].frames)
      BY <1>1, <2>1, <2>2, PieceKeeps
    <3>2. Ended(loud, finals[i].frames, LastFrame(finals[i].frames))
            => Ended(Append(loud, x), finals[i].frames, LastFrame(finals[i].frames))
      BY <1>1, <2>2, EndedKeeps
    <3> QED
      BY <2>1, <2>4, <3>1, <3>2
  <2> QED
    BY <2>3, <2>4
<1>3. \A i, j \in 1..Len(finals) :
        i < j => LastFrame(finals[i].frames) < finals[j].frames[1]
  BY DEF FinalsInv
<1>4. CASE finals' = finals
  BY <1>2, <1>3, <1>4 DEF FinalsInv
<1>5. ASSUME ~eof, NEW r \in Req, finals' = Append(finals, r), Piece(loud', r.frames),
             Ended(loud', r.frames, LastFrame(r.frames)) \/ eof',
             \A i \in 1..Len(finals) : LastFrame(finals[i].frames) < r.frames[1]
      PROVE  FinalsInv'
  <2> PICK all : all = finals'
    OBVIOUS
  <2>1. /\ Len(all) = Len(finals) + 1 /\ all[Len(finals) + 1] = r
        /\ \A i \in 1..Len(finals) : all[i] = finals[i]
    BY <1>1, <1>5, AppendProperties
  <2>2. \A i \in 1..Len(all) : i \in 1..Len(finals) \/ (i = Len(all) /\ all[i] = r)
    BY <1>1, <2>1
  <2>3. \A i \in 1..Len(all) :
          /\ Piece(loud', all[i].frames)
          /\ \/ Ended(loud', all[i].frames, LastFrame(all[i].frames))
             \/ eof' /\ i = Len(all)
    BY <1>2, <1>5, <2>1, <2>2
  <2>4. ASSUME NEW i \in 1..Len(all), NEW j \in 1..Len(all), i < j
        PROVE  LastFrame(all[i].frames) < all[j].frames[1]
    <3>1. i \in 1..Len(finals)
      BY <1>1, <2>1, <2>4
    <3> QED
      BY <1>3, <1>5, <2>1, <2>2, <2>4, <3>1
  <2> QED
    BY <2>3, <2>4 DEF FinalsInv
<1> QED
  BY <1>4, <1>5

LEMMA FinalTypes ==
  ASSUME Types, FinalsInv, NEW i \in 1..Len(finals)
  PROVE  /\ finals[i].frames \in Seq(Nat) /\ LastFrame(finals[i].frames) \in Nat
         /\ finals[i].frames[1] \in Nat /\ finals[i].frames[1] <= LastFrame(finals[i].frames)
         /\ \A m : m \in ToSet(finals[i].frames)
                     <=> m \in finals[i].frames[1]..LastFrame(finals[i].frames)
<1>1. finals[i] \in Req
  BY ElementOfSeq DEF Types
<1>2. finals[i].frames \in Seq(Nat) /\ loud \in Seq(BOOLEAN) /\ Piece(loud, finals[i].frames)
  BY <1>1 DEF Req, Types, FinalsInv
<1> QED
  BY <1>2, PieceProperties

(* The buffer is disjoint from the turns submitted, or is the last of them. *)
LEMMA SpeechStep ==
  ASSUME Types', FinalsInv', NEW m \in Nat, Stretch(buffer', m), CutBefore(finals', m - Len(buffer')),
         \A n \in 1..Len(loud') : IsSpeech(loud', n) =>
           n \in ToSet(buffer') \/ \E i \in 1..Len(finals') : n \in ToSet(finals'[i].frames)
  PROVE  SpeechInv'
<1>1. \A i \in 1..Len(finals') : \A n \in ToSet(buffer') : n \notin ToSet(finals'[i].frames)
  <2> SUFFICES ASSUME NEW i \in 1..Len(finals'), NEW n \in ToSet(buffer'),
                      n \in ToSet(finals'[i].frames)
               PROVE  FALSE
    OBVIOUS
  <2>1. LastFrame(finals'[i].frames) <= m - Len(buffer')
    BY DEF CutBefore
  <2>2. /\ LastFrame(finals'[i].frames) \in Nat /\ n \in Int
        /\ n <= LastFrame(finals'[i].frames)
    <3>1. /\ LastFrame(finals'[i].frames) \in Nat /\ finals'[i].frames[1] \in Nat
          /\ n \in finals'[i].frames[1]..LastFrame(finals'[i].frames)
      <4>1. finals'[i] \in Req
        BY ElementOfSeq DEF Types
      <4>2. /\ finals'[i].frames \in Seq(Nat) /\ loud' \in Seq(BOOLEAN)
            /\ Piece(loud', finals'[i].frames)
        BY <4>1 DEF Req, Types, FinalsInv
      <4> QED
        BY <4>2, PieceProperties
    <3> QED
      BY <3>1
  <2>3. Len(buffer') \in Nat /\ n \in (m - Len(buffer') + 1)..m
    <3>1. buffer' \in Seq(Nat)
      BY DEF Types
    <3> QED
      BY <3>1, StretchProperties
  <2> QED
    BY <2>1, <2>2, <2>3
<1> QED
  BY <1>1 DEF SpeechInv

(* What may begin when the detector has had frame n and its verdict is v.  *)
LEMMA AudioStep ==
  ASSUME Types, NEW x \in BOOLEAN, loud' = Append(loud, x), VadInv(loud, detector.vad)
  PROVE  \E v \in Vad :
           /\ v = VadAfter(detector.vad, [loud |-> x]) /\ VadInv(loud', v)
           /\ v.inSpeech <=> IsSpeech(loud', Len(loud) + 1)
           /\ loud' \in Seq(BOOLEAN) /\ Len(loud') = Len(loud) + 1 /\ Len(loud) \in Nat
           /\ \A i \in 1..Len(loud) : IsSpeech(loud', i) <=> IsSpeech(loud, i)
<1>1. loud \in Seq(BOOLEAN) /\ Len(loud) \in Nat /\ detector.vad \in Vad
  BY DEF Types, Detector
<1>2. /\ loud' \in Seq(BOOLEAN) /\ Len(loud') = Len(loud) + 1
      /\ \A i \in 1..Len(loud) : IsSpeech(loud', i) <=> IsSpeech(loud, i)
  BY <1>1, SpeechKeeps
<1> PICK v : v = VadAfter(detector.vad, [loud |-> x])
  OBVIOUS
<1>3. v \in Vad /\ VadInv(loud', v)
  BY <1>1, VadStep
<1>4. v.inSpeech <=> IsSpeech(loud', Len(loud) + 1)
  BY <1>1, <1>2, <1>3 DEF VadInv
<1> QED
  BY <1>1, <1>2, <1>3, <1>4

(* An open turn of the audio goes on with the next frame.                  *)
LEMMA TurnGrows ==
  ASSUME Types, OpenInv, detector.inTurn, NEW x \in BOOLEAN, loud' = Append(loud, x),
         NEW s \in Nat,
         \/ IsSpeech(loud', Len(loud) + 1) /\ s = 0
         \/ /\ ~IsSpeech(loud', Len(loud) + 1) /\ s = detector.silence + 1
            /\ detector.silence + 1 < EndSilence
  PROVE  LET q == Append(buffer, Len(loud) + 1)
         IN  /\ q \in Seq(Nat) /\ q # <<>> /\ Len(q) = Len(buffer) + 1
             /\ q = buffer \o <<Len(loud) + 1>>
             /\ Stretch(q, Len(loud) + 1) /\ CutRight(loud', q, Len(loud) + 1)
             /\ SilenceInv(loud', s)
<1>1. /\ loud \in Seq(BOOLEAN) /\ Len(loud) \in Nat /\ Len(loud') = Len(loud) + 1
      /\ buffer \in Seq(Nat) /\ detector.silence \in Nat
  BY SpeechKeeps DEF Types, Detector
<1>2. /\ buffer # <<>> /\ Stretch(buffer, Len(loud)) /\ CutRight(loud, buffer, Len(loud))
      /\ SilenceInv(loud, detector.silence)
  BY DEF OpenInv
<1>3. detector.silence + 1 < EndSilence => detector.silence + 1 < Pause
  BY <1>1, PauseProperties DEF Pause
<1>4. /\ IsSpeech(loud', Len(loud')) => SilenceInv(loud', 0)
      /\ ~IsSpeech(loud', Len(loud')) /\ detector.silence + 1 < Pause
           => SilenceInv(loud', detector.silence + 1)
  BY <1>1, <1>2, SilenceStep
<1>5. SilenceInv(loud', s)
  BY <1>1, <1>3, <1>4
<1>6. CutRight(loud', Append(buffer, Len(loud) + 1), Len(loud) + 1)
  BY <1>1, <1>2, <1>5, CutRightGrows
<1>7. Append(buffer, Len(loud) + 1) = buffer \o <<Len(loud) + 1>>
  BY <1>1, AppendIsConcat
<1> QED
  BY <1>1, <1>2, <1>5, <1>6, <1>7, StretchAppend

(* An open turn is ended by the next frame.                                *)
LEMMA TurnEnds ==
  ASSUME Types, OpenInv, detector.inTurn, NEW x \in BOOLEAN, loud' = Append(loud, x),
         \/ detector.length + 1 > MaxUtterance
         \/ ~IsSpeech(loud', Len(loud) + 1) /\ detector.silence + 1 >= EndSilence
  PROVE  /\ Piece(loud', buffer) /\ Ended(loud', buffer, LastFrame(buffer))
         /\ LastFrame(buffer) = Len(loud) /\ buffer[1] = Len(loud) - Len(buffer) + 1
<1>1. /\ loud \in Seq(BOOLEAN) /\ Len(loud) \in Nat /\ Len(loud') = Len(loud) + 1
      /\ buffer \in Seq(Nat) /\ Len(buffer) \in Nat /\ detector.silence \in Nat
  BY SpeechKeeps DEF Types, Detector
<1>2. /\ buffer # <<>> /\ Stretch(buffer, Len(loud)) /\ CutRight(loud, buffer, Len(loud))
      /\ SilenceInv(loud, detector.silence) /\ detector.length = Len(buffer)
  BY DEF OpenInv
<1>3. /\ Piece(loud, buffer) /\ LastFrame(buffer) = Len(loud)
      /\ buffer[1] = Len(loud) - Len(buffer) + 1
  BY <1>1, <1>2, PieceIs
<1>4. Piece(loud', buffer)
  BY <1>1, <1>3, PieceKeeps
<1>5. CASE detector.length + 1 > MaxUtterance
  <2>1. Len(buffer) >= MaxUtterance
    BY <1>1, <1>2, <1>5, WhisperAssumption
  <2> QED
    BY <1>3, <1>4, <2>1 DEF Ended
<1>6. CASE ~IsSpeech(loud', Len(loud) + 1) /\ detector.silence + 1 >= EndSilence
  <2>1. detector.silence + 1 >= Pause
    BY <1>1, <1>6, PauseProperties DEF Pause
  <2>2. Quiet(loud', Len(loud) + 2 - Pause, Len(loud) + 1)
    BY <1>1, <1>2, <1>6, <2>1, SilenceStep
  <2>3. Len(loud) < Len(loud')
    BY <1>1
  <2> QED
    BY <1>3, <1>4, <2>2, <2>3 DEF Ended
<1> QED
  BY <1>5, <1>6

LEMMA FinalsAppend ==
  ASSUME finals \in Seq(Req), NEW r \in Req, finals' = Append(finals, r)
  PROVE  /\ Len(finals') = Len(finals) + 1 /\ finals'[Len(finals) + 1] = r
         /\ \A i \in 1..Len(finals) : finals'[i] = finals[i]
BY AppendProperties

LEMMA CutBeforeLater ==
  ASSUME NEW fs \in Seq(Req), NEW h \in Seq(BOOLEAN), NEW l \in Int, NEW m \in Int, l <= m,
         \A i \in 1..Len(fs) : Piece(h, fs[i].frames), CutBefore(fs, l)
  PROVE  CutBefore(fs, m)
<1> SUFFICES ASSUME NEW i \in 1..Len(fs) PROVE LastFrame(fs[i].frames) <= m
  BY DEF CutBefore
<1>1. fs[i] \in Req
  BY ElementOfSeq
<1>2. LastFrame(fs[i].frames) \in Nat
  BY <1>1, PieceProperties DEF Req
<1>3. LastFrame(fs[i].frames) <= l
  BY DEF CutBefore
<1> PICK e \in Nat : e = LastFrame(fs[i].frames)
  BY <1>2
<1> QED
  BY <1>3

LEMMA TypesSay ==
  ASSUME Types
  PROVE  /\ loud \in Seq(BOOLEAN) /\ Len(loud) \in Nat
         /\ detector \in Detector /\ detector.vad \in Vad /\ detector.inTurn \in BOOLEAN
         /\ detector.preRoll \in Seq(Nat) /\ Len(detector.preRoll) \in Nat
         /\ detector.length \in Nat /\ detector.silence \in Nat
         /\ buffer \in Seq(Nat) /\ Len(buffer) \in Nat
         /\ finals \in Seq(Req) /\ Len(finals) \in Nat
         /\ turn \in Nat /\ turns \in Nat
<1>1. /\ loud \in Seq(BOOLEAN) /\ detector \in Detector /\ buffer \in Seq(Nat)
      /\ finals \in Seq(Req) /\ turn \in Nat /\ turns \in Nat
  BY DEF Types
<1>2. /\ detector.vad \in Vad /\ detector.inTurn \in BOOLEAN /\ detector.preRoll \in Seq(Nat)
      /\ detector.length \in Nat /\ detector.silence \in Nat
  BY <1>1 DEF Detector
<1> QED
  BY <1>1, <1>2, LenProperties

(* The open turn is submitted behind the turns submitted before.           *)
LEMMA SubmitsBuffer ==
  ASSUME Types, FinalsInv, ~eof, eof => eof', NEW q \in Seq(Nat), NEW t \in Nat,
         loud' = loud \/ \E x \in BOOLEAN : loud' = Append(loud, x),
         finals' = Append(finals, Request(t, TRUE, q)), Piece(loud', q),
         Ended(loud', q, LastFrame(q)) \/ eof', CutBefore(finals, q[1] - 1)
  PROVE  /\ FinalsInv' /\ Len(finals') = Len(finals) + 1
         /\ finals'[Len(finals) + 1].frames = q
         /\ \A i \in 1..Len(finals) : finals'[i] = finals[i]
         /\ loud' \in Seq(BOOLEAN) => CutBefore(finals', LastFrame(q))
<1> PICK r : r = Request(t, TRUE, q)
  OBVIOUS
<1>1. r \in Req /\ r.frames = q
  BY DEF Request, Req
<1>2. q # <<>> /\ Len(q) \in Nat /\ Len(q) # 0 /\ q[1] \in Nat
  <2>1. q # <<>> /\ Len(q) \in Nat /\ Len(q) # 0
    BY EmptySeq DEF Piece
  <2> QED
    BY <2>1, ElementOfSeq
<1>3. \A i \in 1..Len(finals) : LastFrame(finals[i].frames) < r.frames[1]
  <2> SUFFICES ASSUME NEW i \in 1..Len(finals)
               PROVE  LastFrame(finals[i].frames) < r.frames[1]
    OBVIOUS
  <2>1. LastFrame(finals[i].frames) \in Nat
    BY FinalTypes
  <2>2. LastFrame(finals[i].frames) <= q[1] - 1
    BY DEF CutBefore
  <2>3. LastFrame(finals[i].frames) < q[1]
    BY <1>2, <2>1, <2>2
  <2> QED
    BY <1>1, <2>3, Zenon
<1>4. finals' = Append(finals, r)
  OBVIOUS
<1>5. FinalsInv'
  BY <1>1, <1>3, <1>4, FinalsStep
<1>6. /\ Len(finals') = Len(finals) + 1 /\ finals'[Len(finals) + 1] = r
      /\ \A i \in 1..Len(finals) : finals'[i] = finals[i]
  <2>1. finals \in Seq(Req)
    BY DEF Types
  <2> QED
    <3>1. r \in Req
      BY <1>1, Zenon
    <3> QED
      BY <1>4, <2>1, <3>1, FinalsAppend, Zenon
<1>7. ASSUME loud' \in Seq(BOOLEAN) PROVE CutBefore(finals', LastFrame(q))
  <2>1. q[1] <= LastFrame(q) /\ LastFrame(q) \in Nat
    BY <1>7, PieceProperties
  <2> SUFFICES ASSUME NEW i \in 1..(Len(finals) + 1)
               PROVE  LastFrame(finals'[i].frames) <= LastFrame(q)
    BY <1>6 DEF CutBefore
  <2>2. CASE i = Len(finals) + 1
    <3>1. finals'[i].frames = q
      BY <1>1, <1>6, <2>2, Zenon
    <3>2. LastFrame(q) <= LastFrame(q)
      BY <2>1
    <3> QED
      BY <3>1, <3>2, Zenon
  <2>3. CASE i # Len(finals) + 1
    <3>1. i \in 1..Len(finals)
      BY <2>3, LenProperties DEF Types
    <3>2. LastFrame(finals[i].frames) \in Nat /\ LastFrame(finals[i].frames) <= q[1] - 1
      BY <3>1, FinalTypes DEF CutBefore
    <3> QED
      BY <1>2, <1>6, <2>1, <3>1, <3>2
  <2> QED
    BY <2>2, <2>3
<1> QED
  BY <1>1, <1>5, <1>6, <1>7

(* A frame of the source: the turns.                                       *)
LEMMA IngestFrameCut ==
  ASSUME Types, Types', CutInv, NEW x \in BOOLEAN, IngestFrame(x)
  PROVE  CutInv'
<1>n. PICK n \in Nat : n = Len(loud) + 1
  BY TypesSay
<1> PICK a : a = Feed(detector, n, x)
  OBVIOUS
<1>1. /\ ingest = "running" /\ loud' = Append(loud, x) /\ Len(loud) \in Nat
      /\ detector \in Detector /\ detector.preRoll \in Seq(Nat) /\ detector.inTurn \in BOOLEAN
      /\ buffer \in Seq(Nat) /\ n \in Nat /\ turn \in Nat /\ Len(buffer) \in Nat
      /\ Len(detector.preRoll) \in Nat
      /\ FinalsInv /\ SpeechInv /\ VadInv(loud, detector.vad) /\ OpenInv
      /\ ~eof /\ ~tailEnds /\ UNCHANGED <<eof, tailEnds>>
      /\ CutBefore(finals, Len(loud) - Len(buffer) - Len(detector.preRoll))
  <2>1. ingest = "running" /\ loud' = Append(loud, x) /\ UNCHANGED <<eof, tailEnds>>
    BY DEF IngestFrame, history
  <2>2. /\ FinalsInv /\ SpeechInv /\ VadInv(loud, detector.vad) /\ OpenInv
        /\ ~eof /\ ~tailEnds
        /\ CutBefore(finals, Len(loud) - Len(buffer) - Len(detector.preRoll))
    BY <2>1 DEF CutInv, TurnInv
  <2>3. Len(loud) + 1 \in Nat
    BY TypesSay
  <2> QED
    BY <2>1, <2>2, <2>3, TypesSay, Zenon
<1>0. /\ Len(loud) \in Nat /\ n \in Nat /\ Len(buffer) \in Nat
      /\ Len(detector.preRoll) \in Nat
  BY TypesSay
<1>2. PICK v \in Vad :
        /\ v = VadAfter(detector.vad, [loud |-> x]) /\ VadInv(loud', v)
        /\ v.inSpeech <=> IsSpeech(loud', n)
        /\ loud' \in Seq(BOOLEAN) /\ Len(loud') = n
        /\ \A i \in 1..Len(loud) : IsSpeech(loud', i) <=> IsSpeech(loud, i)
  BY <1>n, <1>1, AudioStep
<1>3. /\ ActionTypes(a) /\ a.detector.vad = v
      /\ \/ v.inSpeech /\ StartsTurn(detector, a, n)
         \/ ~v.inSpeech /\ LeavesQuiet(detector, a, n)
         \/ GoesOn(detector, a, n, v.inSpeech)
  BY <1>1, <1>2, FeedSays
<1>4. /\ detector' = a.detector
      /\ turns' = turns + IF a.starts THEN 1 ELSE 0
      /\ turn' = IF a.starts THEN turns' ELSE IF a.ends THEN 0 ELSE turn
      /\ buffer' = (IF a.ends THEN <<>> ELSE buffer) \o a.frames
      /\ Submit(IF a.ends THEN Request(turn, TRUE, buffer) ELSE Nothing,
                IF a.due THEN Request(turn', FALSE, buffer') ELSE Nothing)
  BY <1>1, <1>2 DEF IngestFrame
<1>5. \/ ingest' = "failed" /\ finals' = finals
      \/ /\ ingest' = ingest
         /\ finals' = IF a.ends THEN Append(finals, Request(turn, TRUE, buffer)) ELSE finals
  <2>1. Request(turn, TRUE, buffer) # Nothing
    BY DEF Request, Nothing
  <2> QED
    BY <1>4, <2>1 DEF Submit, IngestFails
<1>6. CASE ingest' = "failed" /\ finals' = finals
  <2>1. FinalsInv'
    BY <1>1, <1>6, FinalsStep
  <2> QED
    BY <1>6, <2>1 DEF CutInv, TurnInv, SpeechInv
<1>7. CASE /\ ingest' = ingest
           /\ finals' = IF a.ends THEN Append(finals, Request(turn, TRUE, buffer)) ELSE finals
  \* what a turn that ends leaves behind
  <2>2. ASSUME a.ends = TRUE, detector.inTurn,
               \/ detector.length + 1 > MaxUtterance
               \/ ~IsSpeech(loud', n) /\ detector.silence + 1 >= EndSilence
        PROVE  /\ FinalsInv' /\ CutBefore(finals', Len(loud))
               /\ \A m \in 1..Len(loud) : IsSpeech(loud, m) =>
                    \E i \in 1..Len(finals') : m \in ToSet(finals'[i].frames)
    <3>1. /\ Piece(loud', buffer) /\ Ended(loud', buffer, LastFrame(buffer))
          /\ LastFrame(buffer) = Len(loud) /\ buffer[1] = Len(loud) - Len(buffer) + 1
      BY <1>n, <1>1, <2>2, TurnEnds
    <3>2. CutBefore(finals, buffer[1] - 1)
      <4>1. detector.preRoll = <<>> /\ Len(<<>>) = 0
        BY <1>1, <2>2 DEF OpenInv
      <4>2. Len(loud) - Len(buffer) - Len(detector.preRoll) = buffer[1] - 1
        BY <1>1, <3>1, <4>1
      <4> QED
        BY <1>1, <4>2
    <3>3. finals' = Append(finals, Request(turn, TRUE, buffer))
      BY <1>7, <2>2
    <3>4. /\ FinalsInv' /\ Len(finals') = Len(finals) + 1
          /\ finals'[Len(finals) + 1].frames = buffer
          /\ \A i \in 1..Len(finals) : finals'[i] = finals[i]
          /\ CutBefore(finals', Len(loud))
      BY <1>1, <1>2, <3>1, <3>2, <3>3, SubmitsBuffer
    <3>5. ASSUME NEW m \in 1..Len(loud), IsSpeech(loud, m)
          PROVE  \E i \in 1..Len(finals') : m \in ToSet(finals'[i].frames)
      <4>0. Len(finals) \in Nat
        BY LenProperties DEF Types
      <4>1. m \in ToSet(buffer) \/ \E i \in 1..Len(finals) : m \in ToSet(finals[i].frames)
        BY <1>1, <3>5 DEF SpeechInv
      <4>2. CASE m \in ToSet(buffer)
        BY <3>4, <4>0, <4>2
      <4>3. ASSUME NEW i \in 1..Len(finals), m \in ToSet(finals[i].frames)
            PROVE  \E j \in 1..Len(finals') : m \in ToSet(finals'[j].frames)
        <5>1. i \in 1..Len(finals') /\ finals'[i] = finals[i]
          BY <3>4, <4>0
        <5> QED
          BY <4>3, <5>1
      <4> QED
        BY <4>1, <4>2, <4>3
    <3> QED
      BY <3>4, <3>5
  <2>3. ASSUME a.ends = FALSE PROVE finals' = finals /\ FinalsInv'
    BY <1>1, <1>7, <2>3, FinalsStep
  \* what remains to be shown of the new state
  <2>4. ASSUME FinalsInv', OpenInv', Stretch(buffer', n),
               CutBefore(finals', n - Len(buffer') - Len(detector'.preRoll)),
               IsSpeech(loud', n) => n \in ToSet(buffer'),
               \A m \in 1..Len(loud) : IsSpeech(loud, m) =>
                 m \in ToSet(buffer') \/ \E i \in 1..Len(finals') : m \in ToSet(finals'[i].frames)
        PROVE  CutInv'
    <3>1. TurnInv'
      BY <1>1, <1>2, <1>3, <1>4, <2>4 DEF TurnInv
    <3>2. CutBefore(finals', n - Len(buffer'))
      <4>1. Len(buffer') \in Nat /\ Len(detector'.preRoll) \in Nat
        <5>1. buffer' \in Seq(Nat) /\ detector'.preRoll \in Seq(Nat)
          BY DEF Types, Detector
        <5> QED
          BY <5>1, LenProperties
      <4>2. n - Len(buffer') - Len(detector'.preRoll) <= n - Len(buffer')
        BY <1>0, <4>1
      <4> QED
        <5>1. /\ finals' \in Seq(Req) /\ loud' \in Seq(BOOLEAN)
              /\ \A i \in 1..Len(finals') : Piece(loud', finals'[i].frames)
          BY <2>4 DEF FinalsInv, Types
        <5>2. /\ n - Len(buffer') \in Int
              /\ n - Len(buffer') - Len(detector'.preRoll) \in Int
          BY <1>0, <4>1
        <5> QED
          BY <2>4, <4>2, <5>1, <5>2, CutBeforeLater, Zenon
    <3>3. \A m \in 1..Len(loud') : IsSpeech(loud', m) =>
            m \in ToSet(buffer') \/ \E i \in 1..Len(finals') : m \in ToSet(finals'[i].frames)
      <4>1. \A m \in 1..Len(loud') : m \in 1..Len(loud) \/ m = n
        BY <1>1, <1>2
      <4> QED
        BY <1>2, <2>4, <4>1
    <3>4. SpeechInv'
      BY <1>1, <2>4, <3>2, <3>3, SpeechStep
    <3> QED
      BY <2>4, <3>1, <3>4 DEF CutInv
  <2>5. CASE v.inSpeech /\ StartsTurn(detector, a, n)
    <3>1. /\ detector'.inTurn = TRUE /\ detector'.preRoll = <<>> /\ detector'.silence = 0
          /\ detector'.length = Len(a.frames) /\ turns' = turns + 1 /\ turn' = turns'
      BY <1>4, <2>5 DEF StartsTurn
    <3>2. /\ buffer' = a.frames /\ a.frames \in Seq(Nat) /\ a.frames # <<>>
          /\ Stretch(a.frames, n) /\ Len(a.frames) <= PreRoll + 1
          /\ FinalsInv' /\ CutBefore(finals', n - Len(a.frames) - 0)
          /\ \A m \in 1..Len(loud) : IsSpeech(loud, m) =>
               \E i \in 1..Len(finals') : m \in ToSet(finals'[i].frames)
      <4>1. CASE detector.inTurn
        <5>1. /\ a.ends = TRUE /\ detector.length + 1 > MaxUtterance
              /\ a.frames = Append(<<>>, Len(loud) + 1)
          BY <1>n, <2>5, <4>1 DEF StartsTurn
        <5>2. /\ a.frames \in Seq(Nat) /\ a.frames # <<>> /\ Len(a.frames) = 1
              /\ Stretch(a.frames, n)
          <6>1. <<>> \in Seq(Nat) /\ Len(<<>>) = 0 /\ Stretch(<<>>, Len(loud))
            BY <1>0, EmptyStretch
          <6> QED
            <7>1. /\ a.frames \in Seq(Nat) /\ a.frames # <<>>
                  /\ Len(a.frames) = Len(<<>>) + 1 /\ Stretch(a.frames, Len(loud) + 1)
              BY <1>0, <5>1, <6>1, StretchAppend, Zenon
            <7> QED
              BY <1>n, <6>1, <7>1
        <5>3. buffer' = a.frames
          BY <1>4, <5>1, <5>2, ConcatEmptySeq
        <5>4. /\ FinalsInv' /\ CutBefore(finals', Len(loud))
              /\ \A m \in 1..Len(loud) : IsSpeech(loud, m) =>
                   \E i \in 1..Len(finals') : m \in ToSet(finals'[i].frames)
          BY <2>2, <4>1, <5>1
        <5>5. n - Len(a.frames) - 0 = Len(loud) /\ Len(a.frames) <= PreRoll + 1
          <6>1. 1 <= PreRoll + 1 /\ n - 1 - 0 = Len(loud)
            BY <1>n, <1>0, PauseProperties
          <6> QED
            BY <5>2, <6>1
        <5> QED
          BY <5>2, <5>3, <5>4, <5>5
      <4>2. CASE ~detector.inTurn
        <5>1. a.ends = FALSE /\ a.frames = Append(detector.preRoll, Len(loud) + 1)
          BY <1>n, <2>5, <4>2 DEF StartsTurn
        <5>2. /\ buffer = <<>> /\ Stretch(detector.preRoll, Len(loud))
              /\ Len(detector.preRoll) <= PreRoll
          BY <1>1, <4>2 DEF OpenInv
        <5>3. /\ a.frames \in Seq(Nat) /\ a.frames # <<>>
              /\ Len(a.frames) = Len(detector.preRoll) + 1 /\ Stretch(a.frames, n)
          BY <1>n, <1>1, <5>1, <5>2, StretchAppend
        <5>4. buffer' = a.frames
          BY <1>4, <5>1, <5>2, <5>3, ConcatEmptySeq
        <5>5. finals' = finals /\ FinalsInv'
          BY <2>3, <5>1
        <5>6. /\ n - Len(a.frames) - 0 = Len(loud) - Len(buffer) - Len(detector.preRoll)
              /\ Len(a.frames) <= PreRoll + 1
          <6>1. Len(buffer) = 0
            BY <5>2, EmptySeq
          <6> QED
            <7>f. PICK f \in Nat : f = Len(a.frames)
              BY <5>3, LenProperties
            <7>p. PICK p \in Nat : p = Len(detector.preRoll)
              BY <1>0
            <7>1. f = p + 1 /\ p <= PreRoll /\ PreRoll \in Nat
              BY <5>2, <5>3, <7>f, <7>p, PauseProperties
            <7>2. n - f - 0 = Len(loud) - Len(buffer) - p /\ f <= PreRoll + 1
              <8>1. f <= PreRoll + 1
                BY <7>1
              <8>2. n = Len(loud) + 1 /\ Len(loud) \in Nat /\ f = p + 1
                BY <1>n, <1>0, <7>1
              <8>3. Len(loud) - Len(buffer) - p = Len(loud) - p
                BY <1>0, <6>1
              <8>4. PICK l \in Nat : l = Len(loud)
                BY <8>2
              <8>5. n - f - 0 = l - p
                BY <8>2, <8>4
              <8> QED
                BY <8>1, <8>3, <8>4, <8>5
            <7> QED
              BY <7>2, <7>f, <7>p
        <5>7. \A m \in 1..Len(loud) : IsSpeech(loud, m) =>
                \E i \in 1..Len(finals) : m \in ToSet(finals[i].frames)
          <6>1. \A m : m \notin ToSet(buffer)
            BY <1>1, <5>2, EmptyStretch
          <6> QED
            BY <1>1, <6>1 DEF SpeechInv
        <5> QED
          BY <1>1, <5>3, <5>4, <5>5, <5>6, <5>7
      <4> QED
        BY <4>1, <4>2
    <3>3. CutRight(loud', a.frames, n) /\ SilenceInv(loud', 0) /\ n \in ToSet(a.frames)
      <4>1. loud' # <<>> /\ IsSpeech(loud', n)
        <5>1. loud' \in Seq(BOOLEAN) /\ Len(loud') = n /\ n > 0
          BY <1>n, <1>0, <1>2
        <5>2. loud' # <<>>
          BY <5>1, EmptySeq
        <5>3. IsSpeech(loud', n)
          BY <1>2, <2>5
        <5> QED
          BY <5>2, <5>3
      <4>2. CutRight(loud', a.frames, n) /\ SilenceInv(loud', 0)
        BY <1>2, <3>2, <4>1, CutRightStarts
      <4>3. n \in ToSet(a.frames)
        <5>1. /\ Len(a.frames) \in Nat /\ Len(a.frames) # 0
              /\ \A m : m \in ToSet(a.frames) <=> m \in (n - Len(a.frames) + 1)..n
          BY <1>1, <3>2, StretchProperties
        <5>2. n \in (n - Len(a.frames) + 1)..n
          BY <1>0, <5>1
        <5> QED
          BY <5>1, <5>2
      <4> QED
        BY <4>2, <4>3
    <3>4. turns' >= 1
      BY <3>1, TypesSay
    <3>5. OpenInv'
      BY <1>2, <3>1, <3>2, <3>3, <3>4 DEF OpenInv
    <3>6. Len(detector'.preRoll) = 0
      BY <3>1, EmptySeq
    <3> QED
      BY <2>4, <3>2, <3>3, <3>5, <3>6
  <2>6. CASE ~v.inSpeech /\ LeavesQuiet(detector, a, n)
    <3>1. PICK before :
            /\ before = IF detector.inTurn THEN <<>> ELSE detector.preRoll
            /\ detector'.preRoll = IF Len(before) + 1 > PreRoll THEN Tail(Append(before, n))
                                   ELSE Append(before, n)
      BY <1>4, <2>6 DEF LeavesQuiet
    <3>2. /\ a.starts = FALSE /\ a.frames = <<>> /\ detector'.inTurn = FALSE
          /\ a.ends = detector.inTurn
          /\ detector.inTurn => \/ detector.length + 1 > MaxUtterance
                               \/ detector.silence + 1 >= EndSilence
      BY <1>4, <2>6 DEF LeavesQuiet
    <3>3. /\ before \in Seq(Nat) /\ Stretch(before, Len(loud)) /\ Len(before) <= PreRoll
          /\ Len(before) \in Nat
          /\ FinalsInv' /\ CutBefore(finals', Len(loud) - Len(before)) /\ turn' = 0
          /\ buffer' = <<>>
          /\ \A m \in 1..Len(loud) : IsSpeech(loud, m) =>
               \E i \in 1..Len(finals') : m \in ToSet(finals'[i].frames)
      <4>0. <<>> \o <<>> = <<>>
        BY EmptySeq, ConcatEmptySeq
      <4>1. CASE detector.inTurn
        <5>1. a.ends = TRUE /\ before = <<>>
          BY <1>1, <3>1, <3>2, <4>1
        <5>2. buffer' = <<>> /\ turn' = 0
          BY <1>4, <3>2, <4>0, <5>1
        <5>3. /\ FinalsInv' /\ CutBefore(finals', Len(loud))
              /\ \A m \in 1..Len(loud) : IsSpeech(loud, m) =>
                   \E i \in 1..Len(finals') : m \in ToSet(finals'[i].frames)
          BY <1>2, <2>2, <2>6, <3>2, <4>1, <5>1
        <5>4. /\ before \in Seq(Nat) /\ Stretch(before, Len(loud)) /\ Len(before) = 0
          BY <1>1, <5>1, EmptyStretch
        <5>5. Len(loud) - Len(before) = Len(loud) /\ Len(before) <= PreRoll
          BY <1>1, <5>4, PauseProperties
        <5> QED
          BY <5>2, <5>3, <5>4, <5>5
      <4>2. CASE ~detector.inTurn
        <5>1. a.ends = FALSE /\ before = detector.preRoll
          BY <1>1, <3>1, <3>2, <4>2
        <5>2. /\ buffer = <<>> /\ Stretch(detector.preRoll, Len(loud))
              /\ Len(detector.preRoll) <= PreRoll /\ turn = 0
          BY <1>1, <4>2 DEF OpenInv
        <5>3. buffer' = <<>> /\ turn' = 0
          BY <1>4, <3>2, <4>0, <5>1, <5>2
        <5>4. finals' = finals /\ FinalsInv'
          BY <2>3, <5>1
        <5>5. Len(loud) - Len(buffer) - Len(detector.preRoll) = Len(loud) - Len(before)
          <6>1. Len(buffer) = 0
            BY <5>2, EmptySeq
          <6> QED
            BY <1>1, <5>1, <6>1
        <5>6. \A m \in 1..Len(loud) : IsSpeech(loud, m) =>
                \E i \in 1..Len(finals) : m \in ToSet(finals[i].frames)
          <6>1. \A m : m \notin ToSet(buffer)
            BY <1>1, <5>2, EmptyStretch
          <6> QED
            BY <1>1, <6>1 DEF SpeechInv
        <5> QED
          BY <1>1, <5>1, <5>2, <5>3, <5>4, <5>5, <5>6
      <4> QED
        BY <4>1, <4>2
    <3>4. /\ detector'.preRoll \in Seq(Nat) /\ Stretch(detector'.preRoll, n)
          /\ Len(detector'.preRoll) <= PreRoll /\ Len(detector'.preRoll) <= Len(before) + 1
      BY <1>n, <1>1, <3>1, <3>3, StretchRetained
    <3>5. OpenInv'
      BY <1>2, <3>2, <3>3, <3>4 DEF OpenInv
    <3>6. Len(buffer') = 0 /\ Stretch(buffer', n)
      BY <1>1, <3>3, EmptyStretch
    <3>7. CutBefore(finals', n - Len(buffer') - Len(detector'.preRoll))
      <4>1. Len(detector'.preRoll) \in Nat
        BY <3>4, LenProperties
      <4>2. Len(loud) - Len(before) <= n - Len(buffer') - Len(detector'.preRoll)
        BY <1>n, <1>1, <3>3, <3>4, <3>6, <4>1
      <4> QED
        <5>1. /\ finals' \in Seq(Req) /\ loud' \in Seq(BOOLEAN)
              /\ \A i \in 1..Len(finals') : Piece(loud', finals'[i].frames)
          BY <3>3 DEF FinalsInv, Types
        <5>2. /\ Len(loud) - Len(before) \in Int
              /\ n - Len(buffer') - Len(detector'.preRoll) \in Int
          BY <1>0, <3>3, <3>6, <4>1
        <5> QED
          BY <3>3, <4>2, <5>1, <5>2, CutBeforeLater, Zenon
    <3>8. ~IsSpeech(loud', n)
      BY <1>2, <2>6
    <3> QED
      BY <2>4, <3>3, <3>5, <3>6, <3>7, <3>8
  <2>7. CASE GoesOn(detector, a, n, v.inSpeech)
    <3>1. /\ detector.inTurn /\ a.starts = FALSE /\ a.ends = FALSE /\ a.frames = <<n>>
          /\ detector'.inTurn = TRUE /\ detector'.preRoll = detector.preRoll
          /\ detector'.length = detector.length + 1
          /\ turn' = turn /\ turns' = turns + 0
          /\ v.inSpeech => detector'.silence = 0
          /\ ~v.inSpeech => /\ detector'.silence = detector.silence + 1
                            /\ detector.silence + 1 < EndSilence
      BY <1>4, <2>7 DEF GoesOn
    <3>2. /\ turn = turns /\ turns >= 1 /\ detector.preRoll = <<>>
          /\ detector.length = Len(buffer) /\ buffer # <<>>
      BY <1>1, <3>1 DEF OpenInv
    <3> PICK q : q = Append(buffer, n)
      OBVIOUS
    <3>3. /\ q \in Seq(Nat) /\ q # <<>> /\ Len(q) = Len(buffer) + 1
          /\ q = buffer \o <<n>> /\ Stretch(q, n) /\ CutRight(loud', q, n)
          /\ SilenceInv(loud', detector'.silence)
      <4>1. detector'.silence \in Nat
        BY DEF Types, Detector
      <4> QED
        BY <1>n, <1>1, <1>2, <3>1, <4>1, TurnGrows
    <3>4. buffer' = q
      BY <1>4, <3>1, <3>3
    <3>5. turn' = turns' /\ turns' >= 1
      BY <3>1, <3>2, TypesSay
    <3>6. OpenInv'
      BY <1>2, <3>1, <3>2, <3>3, <3>4, <3>5 DEF OpenInv
    <3>7. finals' = finals /\ FinalsInv'
      BY <2>3, <3>1
    <3>8. CutBefore(finals', n - Len(buffer') - Len(detector'.preRoll))
      <4>1. Len(detector.preRoll) = 0
        BY <3>2, EmptySeq
      <4>2. n - Len(buffer') - Len(detector'.preRoll)
              = Len(loud) - Len(buffer) - Len(detector.preRoll)
        BY <1>n, <1>1, <3>1, <3>3, <3>4, <4>1
      <4> QED
        BY <1>1, <3>7, <4>2
    <3>9. /\ n \in ToSet(buffer')
          /\ \A m \in ToSet(buffer) : m \in ToSet(buffer')
      <4>1. Stretch(buffer, Len(loud))
        BY <1>1, <3>1 DEF OpenInv
      <4>2. /\ \A m : m \in ToSet(buffer) <=> m \in (Len(loud) - Len(buffer) + 1)..Len(loud)
            /\ \A m : m \in ToSet(q) <=> m \in (n - Len(q) + 1)..n
            /\ Len(buffer) <= Len(loud)
        BY <1>1, <3>3, <4>1, StretchProperties
      <4>3. /\ n \in (n - Len(q) + 1)..n
            /\ \A m : m \in (Len(loud) - Len(buffer) + 1)..Len(loud) => m \in (n - Len(q) + 1)..n
        BY <1>n, <1>1, <3>3, <4>2
      <4> QED
        BY <3>4, <4>2, <4>3
    <3>10. \A m \in 1..Len(loud) : IsSpeech(loud, m) =>
             m \in ToSet(buffer') \/ \E i \in 1..Len(finals') : m \in ToSet(finals'[i].frames)
      BY <1>1, <3>7, <3>9 DEF SpeechInv
    <3> QED
      BY <2>4, <3>3, <3>4, <3>6, <3>7, <3>8, <3>9, <3>10
  <2> QED
    BY <1>3, <2>5, <2>6, <2>7
<1> QED
  BY <1>5, <1>6, <1>7

(* The last turn is submitted, and the buffer is kept.                     *)
LEMMA LastSubmitted ==
  ASSUME Types, Types', FinalsInv, ~eof, eof', NEW q \in Seq(Nat), buffer' = q,
         loud' = loud \/ \E x \in BOOLEAN : loud' = Append(loud, x),
         finals' = Append(finals, Request(turn, TRUE, q)), Piece(loud', q),
         CutBefore(finals, q[1] - 1),
         \A n \in 1..Len(loud') : IsSpeech(loud', n) =>
           n \in ToSet(q) \/ \E i \in 1..Len(finals) : n \in ToSet(finals[i].frames)
  PROVE  FinalsInv' /\ SpeechInv'
<1>1. turn \in Nat /\ Len(finals) \in Nat /\ loud' \in Seq(BOOLEAN)
  BY TypesSay DEF Types
<1>2. /\ FinalsInv' /\ Len(finals') = Len(finals) + 1
      /\ finals'[Len(finals) + 1].frames = q
      /\ \A i \in 1..Len(finals) : finals'[i] = finals[i]
  BY <1>1, SubmitsBuffer
<1>3. ASSUME NEW n \in 1..Len(loud'), IsSpeech(loud', n)
      PROVE  n \in ToSet(buffer') \/ \E i \in 1..Len(finals') : n \in ToSet(finals'[i].frames)
  <2>1. \A i \in 1..Len(finals) : i \in 1..Len(finals')
    BY <1>1, <1>2
  <2> QED
    BY <1>2, <1>3, <2>1
<1>4. ASSUME NEW i \in 1..Len(finals')
      PROVE  \/ ToSet(buffer') = ToSet(finals'[i].frames)
             \/ \A n \in ToSet(buffer') : n \notin ToSet(finals'[i].frames)
  <2>1. CASE i = Len(finals) + 1
    BY <1>2, <2>1
  <2>2. CASE i # Len(finals) + 1
    <3>1. i \in 1..Len(finals)
      BY <1>1, <1>2, <2>2
    <3>2. /\ LastFrame(finals[i].frames) \in Nat /\ LastFrame(finals[i].frames) <= q[1] - 1
          /\ \A m : m \in ToSet(finals[i].frames)
                      <=> m \in finals[i].frames[1]..LastFrame(finals[i].frames)
          /\ finals[i].frames[1] \in Nat
      BY <3>1, FinalTypes DEF CutBefore
    <3>3. /\ q[1] \in Nat /\ LastFrame(q) \in Nat
          /\ \A m : m \in ToSet(q) <=> m \in q[1]..LastFrame(q)
      BY <1>1, PieceProperties
    <3>4. ASSUME NEW m \in ToSet(q), m \in ToSet(finals[i].frames) PROVE FALSE
      <4>1. m \in q[1]..LastFrame(q) /\ m \in finals[i].frames[1]..LastFrame(finals[i].frames)
        BY <3>2, <3>3, <3>4
      <4>2. PICK l \in Nat : l = LastFrame(finals[i].frames)
        BY <3>2
      <4>3. m \in Int /\ m >= q[1] /\ m <= l /\ l <= q[1] - 1
        BY <3>2, <3>3, <4>1, <4>2
      <4> QED
        BY <3>3, <4>3
    <3> QED
      BY <1>2, <3>1, <3>4
  <2> QED
    BY <2>1, <2>2
<1> QED
  BY <1>2, <1>3, <1>4 DEF SpeechInv

(* The end of the source: the turns.                                       *)
LEMMA EndOfAudioCut ==
  ASSUME Types, Types', CutInv, NEW tail \in BOOLEAN, NEW x \in BOOLEAN, EndOfAudio(tail, x)
  PROVE  CutInv'
<1>1. PICK a : a = IF tail /\ detector.inTurn THEN Feed(detector, Len(loud) + 1, x)
                   ELSE Action(detector, FALSE, FALSE, <<>>)
  OBVIOUS
<1>2. /\ ingest = "running"
      /\ loud' = IF tail /\ detector.inTurn THEN Append(loud, x) ELSE loud
      /\ buffer' = buffer \o a.frames
      /\ tailEnds' = (a.ends /\ ~a.starts)
      /\ \/ ingest' = "failed" /\ finals' = finals /\ eof' = eof
         \/ /\ ingest' = "done" /\ eof'
            /\ finals' = IF a.detector.inTurn THEN Append(finals, Request(turn, TRUE, buffer'))
                         ELSE finals
  BY <1>1 DEF EndOfAudio, IngestFails
<1>3. /\ Len(loud) \in Nat /\ Len(buffer) \in Nat /\ Len(detector.preRoll) \in Nat
      /\ detector \in Detector /\ detector.vad \in Vad /\ detector.inTurn \in BOOLEAN
      /\ detector.preRoll \in Seq(Nat) /\ buffer \in Seq(Nat) /\ loud \in Seq(BOOLEAN)
  BY TypesSay
<1>4. /\ FinalsInv /\ SpeechInv /\ VadInv(loud, detector.vad) /\ OpenInv
      /\ ~eof /\ ~tailEnds
      /\ CutBefore(finals, Len(loud) - Len(buffer) - Len(detector.preRoll))
  BY <1>2 DEF CutInv, TurnInv
<1>5. loud' = loud \/ \E y \in BOOLEAN : loud' = Append(loud, y)
  BY <1>2
<1>6. CASE ingest' = "failed" /\ finals' = finals /\ eof' = eof
  <2>1. FinalsInv'
    BY <1>4, <1>5, <1>6, FinalsStep
  <2> QED
    BY <1>6, <2>1 DEF CutInv, TurnInv, SpeechInv
<1>7. CASE /\ ingest' = "done" /\ eof'
           /\ finals' = IF a.detector.inTurn THEN Append(finals, Request(turn, TRUE, buffer'))
                        ELSE finals
  <2>1. TurnInv'
    BY <1>7 DEF TurnInv
  <2>2. ASSUME a.detector.inTurn = FALSE PROVE finals' = finals /\ FinalsInv'
    BY <1>4, <1>5, <1>7, <2>2, FinalsStep
  <2>3. ASSUME detector.inTurn
        PROVE  /\ CutBefore(finals, Len(loud) - Len(buffer))
               /\ Stretch(buffer, Len(loud)) /\ buffer # <<>> /\ CutRight(loud, buffer, Len(loud))
    <3>1. /\ detector.preRoll = <<>> /\ Len(<<>>) = 0
          /\ Stretch(buffer, Len(loud)) /\ buffer # <<>> /\ CutRight(loud, buffer, Len(loud))
      BY <1>4, <2>3 DEF OpenInv
    <3>2. Len(loud) - Len(buffer) - Len(detector.preRoll) = Len(loud) - Len(buffer)
      BY <1>3, <3>1
    <3> QED
      BY <1>4, <3>1, <3>2
  <2>4. CASE ~(tail /\ detector.inTurn)
    <3>1. a.frames = <<>> /\ a.detector = detector /\ loud' = loud
      BY <1>1, <1>2, <2>4 DEF Action
    <3>2. buffer' = buffer
      BY <1>2, <1>3, <3>1, ConcatEmptySeq
    <3>3. CASE detector.inTurn
      <4>1. /\ Piece(loud', buffer) /\ LastFrame(buffer) = Len(loud)
            /\ buffer[1] = Len(loud) - Len(buffer) + 1
        BY <1>3, <2>3, <3>1, <3>3, PieceIs
      <4>2. buffer[1] - 1 = Len(loud) - Len(buffer)
        BY <1>3, <4>1
      <4>3. CutBefore(finals, buffer[1] - 1)
        BY <2>3, <3>3, <4>2
      <4>4. finals' = Append(finals, Request(turn, TRUE, buffer))
        BY <1>7, <3>1, <3>2, <3>3
      <4>5. \A n \in 1..Len(loud') : IsSpeech(loud', n) =>
              n \in ToSet(buffer) \/ \E i \in 1..Len(finals) : n \in ToSet(finals[i].frames)
        BY <1>2, <1>4, <3>1 DEF SpeechInv
      <4>6. FinalsInv' /\ SpeechInv'
        BY <1>3, <1>4, <1>5, <1>7, <3>2, <4>1, <4>3, <4>4, <4>5, LastSubmitted
      <4> QED
        BY <2>1, <4>6 DEF CutInv
    <3>4. CASE ~detector.inTurn
      <4>1. finals' = finals /\ FinalsInv'
        BY <1>3, <2>2, <3>1, <3>4
      <4>2. SpeechInv'
        BY <1>2, <1>4, <3>1, <3>2, <4>1 DEF SpeechInv
      <4> QED
        BY <2>1, <4>1, <4>2 DEF CutInv
    <3> QED
      BY <3>3, <3>4
  <2>5. CASE tail /\ detector.inTurn
    <3> PICK n : n = Len(loud) + 1
      OBVIOUS
    <3>1. loud' = Append(loud, x) /\ a = Feed(detector, Len(loud) + 1, x)
      BY <1>1, <1>2, <2>5
    <3>2. PICK v \in Vad :
            /\ v = VadAfter(detector.vad, [loud |-> x])
            /\ v.inSpeech <=> IsSpeech(loud', Len(loud) + 1)
            /\ loud' \in Seq(BOOLEAN) /\ Len(loud') = Len(loud) + 1
            /\ \A i \in 1..Len(loud) : IsSpeech(loud', i) <=> IsSpeech(loud, i)
      BY <1>4, <3>1, AudioStep
    <3>3. /\ \/ v.inSpeech /\ StartsTurn(detector, a, Len(loud) + 1)
             \/ ~v.inSpeech /\ LeavesQuiet(detector, a, Len(loud) + 1)
             \/ GoesOn(detector, a, Len(loud) + 1, v.inSpeech)
          /\ a.ends \in BOOLEAN /\ a.starts \in BOOLEAN
      <4>1. Len(loud) + 1 \in Nat
        BY <1>3
      <4> QED
        BY <1>3, <3>1, <3>2, <4>1, FeedSays DEF ActionTypes
    <3>4. CASE ~v.inSpeech /\ LeavesQuiet(detector, a, Len(loud) + 1)
      <4>1. a.detector.inTurn = FALSE /\ a.ends = TRUE /\ a.starts = FALSE
        BY <2>5, <3>4 DEF LeavesQuiet
      <4>2. tailEnds' /\ FinalsInv'
        BY <1>2, <2>2, <4>1
      <4> QED
        BY <2>1, <4>2 DEF CutInv, SpeechInv
    <3>5. CASE \/ v.inSpeech /\ StartsTurn(detector, a, Len(loud) + 1)
               \/ GoesOn(detector, a, Len(loud) + 1, v.inSpeech)
      <4>1. /\ a.detector.inTurn = TRUE /\ a.frames = <<Len(loud) + 1>>
            /\ \/ v.inSpeech
               \/ ~v.inSpeech /\ detector.silence + 1 < EndSilence
        <5>1. Append(<<>>, Len(loud) + 1) = <<Len(loud) + 1>>
          OBVIOUS
        <5> QED
          BY <2>5, <3>5, <5>1 DEF StartsTurn, GoesOn
      <4> PICK q : q = Append(buffer, Len(loud) + 1)
        OBVIOUS
      <4>2. /\ q \in Seq(Nat) /\ q # <<>> /\ Len(q) = Len(buffer) + 1
            /\ q = buffer \o <<Len(loud) + 1>>
            /\ Stretch(q, Len(loud) + 1) /\ CutRight(loud', q, Len(loud) + 1)
        <5>1. /\ 0 \in Nat /\ detector.silence + 1 \in Nat /\ detector.silence \in Nat
          BY TypesSay
        <5>2. CASE v.inSpeech
          BY <1>4, <2>5, <3>1, <3>2, <5>1, <5>2, TurnGrows
        <5>3. CASE ~v.inSpeech /\ detector.silence + 1 < EndSilence
          BY <1>4, <2>5, <3>1, <3>2, <5>1, <5>3, TurnGrows
        <5> QED
          BY <4>1, <5>2, <5>3
      <4>3. buffer' = q
        BY <1>2, <4>1, <4>2
      <4>4. /\ Piece(loud', q) /\ LastFrame(q) = Len(loud) + 1
            /\ q[1] = (Len(loud) + 1) - Len(q) + 1
        <5>1. Len(loud) + 1 \in Nat /\ Len(loud) + 1 <= Len(loud')
          BY <1>3, <3>2
        <5> QED
          BY <3>2, <4>2, <5>1, PieceIs
      <4>5. q[1] - 1 = Len(loud) - Len(buffer)
        <5>1. PICK l \in Nat, b \in Nat : l = Len(loud) /\ b = Len(buffer)
          BY <1>3
        <5>2. q[1] = (l + 1) - (b + 1) + 1
          BY <4>2, <4>4, <5>1
        <5> QED
          BY <5>1, <5>2
      <4>6. CutBefore(finals, q[1] - 1)
        BY <2>3, <2>5, <4>5
      <4>7. finals' = Append(finals, Request(turn, TRUE, q))
        BY <1>7, <4>1, <4>3
      <4>8. ASSUME NEW m \in 1..Len(loud'), IsSpeech(loud', m)
            PROVE  m \in ToSet(q) \/ \E i \in 1..Len(finals) : m \in ToSet(finals[i].frames)
        <5>1. Stretch(buffer, Len(loud))
          BY <2>3, <2>5
        <5>2. /\ \A k : k \in ToSet(buffer) <=> k \in (Len(loud) - Len(buffer) + 1)..Len(loud)
              /\ \A k : k \in ToSet(q) <=> k \in ((Len(loud) + 1) - Len(q) + 1)..(Len(loud) + 1)
              /\ Len(buffer) <= Len(loud)
          <6>1. Len(loud) + 1 \in Nat
            BY <1>3
          <6>2. /\ \A k : k \in ToSet(buffer) <=> k \in (Len(loud) - Len(buffer) + 1)..Len(loud)
                /\ Len(buffer) <= Len(loud)
            BY <1>3, <5>1, StretchProperties, Zenon
          <6>3. \A k : k \in ToSet(q) <=> k \in ((Len(loud) + 1) - Len(q) + 1)..(Len(loud) + 1)
            BY <6>1, <4>2, StretchProperties, Zenon
          <6> QED
            BY <6>2, <6>3
        <5>3. m \in 1..Len(loud) \/ m = Len(loud) + 1
          BY <1>3, <3>2
        <5>4. /\ Len(loud) + 1 \in ToSet(q)
              /\ \A k : k \in ToSet(buffer) => k \in ToSet(q)
          <6>1. PICK l \in Nat, b \in Nat : l = Len(loud) /\ b = Len(buffer) /\ b <= l
            BY <1>3, <5>2
          <6>2. /\ \A k : k \in ToSet(buffer) <=> k \in (l - b + 1)..l
                /\ \A k : k \in ToSet(q) <=> k \in ((l + 1) - (b + 1) + 1)..(l + 1)
            BY <4>2, <5>2, <6>1
          <6>3. /\ l + 1 \in ((l + 1) - (b + 1) + 1)..(l + 1)
                /\ \A k \in (l - b + 1)..l : k \in ((l + 1) - (b + 1) + 1)..(l + 1)
            OBVIOUS
          <6> QED
            BY <6>1, <6>2, <6>3
        <5>5. CASE m \in 1..Len(loud)
          <6>1. m \in ToSet(buffer) \/ \E i \in 1..Len(finals) : m \in ToSet(finals[i].frames)
            BY <1>2, <1>4, <3>2, <4>8, <5>5 DEF SpeechInv
          <6> QED
            BY <5>4, <6>1
        <5> QED
          BY <5>3, <5>4, <5>5
      <4>9. FinalsInv' /\ SpeechInv'
        BY <1>4, <1>5, <1>7, <4>2, <4>3, <4>4, <4>6, <4>7, <4>8, LastSubmitted
      <4> QED
        BY <2>1, <4>9 DEF CutInv
    <3> QED
      BY <3>3, <3>4, <3>5
  <2> QED
    BY <2>4, <2>5
<1> QED
  BY <1>2, <1>6, <1>7

---------------------------------------------------------------------------
(* Lemmas about the decode queue. *)

(* p is q with r behind it, in the place of a partial or as one more.      *)
Pushed(q, r, p) ==
  /\ p \in Seq(Req) /\ Len(p) \in Nat /\ Len(p) >= 1 /\ p[Len(p)] = r
  /\ Len(p) = Len(q) + 1 \/ (Len(p) = Len(q) /\ ~q[Len(q)].final)
  /\ \A i \in 1..(Len(p) - 1) : p[i] = q[i]

LEMMA Replaces ==
  ASSUME NEW q \in Seq(Req), q # <<>>, NEW r \in Req
  PROVE  LET p == Append(Front(q), r)
         IN  /\ p \in Seq(Req) /\ Len(p) = Len(q) /\ p[Len(p)] = r
             /\ \A i \in 1..(Len(p) - 1) : p[i] = q[i]
<1>1. Len(q) \in Nat /\ Len(q) # 0 /\ \A i \in 1..Len(q) : q[i] \in Req
  BY EmptySeq, LenProperties, ElementOfSeq
<1> PICK f : f = Front(q)
  OBVIOUS
<1>2. f \in Seq(Req) /\ Len(f) = Len(q) - 1 /\ \A i \in 1..(Len(q) - 1) : f[i] = q[i]
  <2>1. PICK m \in Nat : m = Len(q) - 1
    BY <1>1
  <2>2. \A i \in 1..m : q[i] \in Req
    BY <1>1, <2>1
  <2>3. f = SubSeq(q, 1, m)
    BY <2>1 DEF Front
  <2>4. /\ f \in Seq(Req) /\ Len(f) = IF 1 <= m THEN m - 1 + 1 ELSE 0
        /\ \A i \in 1..(m - 1 + 1) : f[i] = q[1 + i - 1]
    BY <2>2, <2>3, SubSeqProperties
  <2>5. m - 1 + 1 = m /\ \A i \in 1..m : 1 + i - 1 = i
    OBVIOUS
  <2>6. Len(f) = m /\ \A i \in 1..m : f[i] = q[i]
    BY <2>4, <2>5
  <2> QED
    BY <2>1, <2>4, <2>6
<1>3. /\ Append(f, r) \in Seq(Req) /\ Len(Append(f, r)) = Len(f) + 1
      /\ Append(f, r)[Len(f) + 1] = r
      /\ \A i \in 1..Len(f) : Append(f, r)[i] = f[i]
  BY <1>2, AppendProperties
<1> QED
  BY <1>1, <1>2, <1>3

LEMMA PushSays ==
  ASSUME NEW q \in Seq(Req), NEW r \in Req
  PROVE  /\ Pushed(q, r, PartialPushed(q, r)) /\ Pushed(q, r, FinalPushed(q, r))
         /\ q # <<>> /\ ~q[Len(q)].final => Len(PartialPushed(q, r)) = Len(q)
         /\ q # <<>> /\ ~q[Len(q)].final /\ q[Len(q)].turn = r.turn
              => Len(FinalPushed(q, r)) = Len(q)
<1> PICK a : a = Append(q, r)
  OBVIOUS
<1> PICK b : b = Append(Front(q), r)
  OBVIOUS
<1>1. Pushed(q, r, a)
  <2>1. /\ Len(q) \in Nat /\ a \in Seq(Req) /\ Len(a) = Len(q) + 1 /\ a[Len(q) + 1] = r
        /\ \A i \in 1..Len(q) : a[i] = q[i]
    BY AppendProperties
  <2> QED
    BY <2>1 DEF Pushed
<1>2. q # <<>> => Len(b) = Len(q)
  BY Replaces
<1>3. q # <<>> /\ ~q[Len(q)].final => Pushed(q, r, b)
  <2> SUFFICES ASSUME q # <<>>, ~q[Len(q)].final PROVE Pushed(q, r, b)
    OBVIOUS
  <2>1. /\ b \in Seq(Req) /\ Len(b) = Len(q) /\ b[Len(b)] = r
        /\ \A i \in 1..(Len(b) - 1) : b[i] = q[i]
    BY Replaces
  <2>2. Len(b) \in Nat /\ Len(b) >= 1
    BY <2>1, EmptySeq, LenProperties
  <2> QED
    BY <2>1, <2>2 DEF Pushed
<1>4. Last(q) = q[Len(q)]
  BY DEF Last
<1>5. /\ PartialPushed(q, r) = IF q # <<>> /\ ~q[Len(q)].final THEN b ELSE a
      /\ FinalPushed(q, r) = IF q # <<>> /\ ~q[Len(q)].final /\ q[Len(q)].turn = r.turn
                               THEN b ELSE a
  BY <1>4 DEF PartialPushed, FinalPushed
<1> QED
  BY <1>1, <1>2, <1>3, <1>5

LEMMA FinalsCount ==
  ASSUME NEW q \in Seq(Req), \A i \in 1..(Len(q) - 1) : q[i].final
  PROVE  FinalsIn(q) = IF q = <<>> \/ q[Len(q)].final THEN Len(q) ELSE Len(q) - 1
<1>0. Len(q) \in Nat
  BY LenProperties
<1>1. Len(q) \in Nat /\ (q = <<>> <=> Len(q) = 0) /\ DOMAIN q = 1..Len(q)
  BY EmptySeq, LenProperties
<1>2. CASE q = <<>> \/ q[Len(q)].final
  <2>0. \A i \in 1..Len(q) : i \in 1..(Len(q) - 1) \/ (i = Len(q) /\ Len(q) # 0)
    BY <1>0
  <2>1. \A i \in 1..Len(q) : i \in 1..(Len(q) - 1) \/ (i = Len(q) /\ q # <<>>)
    BY <1>1, <2>0
  <2>2. {i \in DOMAIN q : q[i].final} = 1..Len(q)
    BY <1>1, <1>2, <2>1
  <2>3. Cardinality(1..Len(q)) = Len(q)
    <3>0. 1 \in Int /\ Len(q) \in Int
      BY <1>0
    <3>1. Cardinality(1..Len(q)) = IF 1 > Len(q) THEN 0 ELSE Len(q) - 1 + 1
      BY <3>0, FS_Interval, Zenon
    <3> QED
      BY <1>1, <3>1
  <2> QED
    BY <1>2, <2>2, <2>3 DEF FinalsIn
<1>3. CASE q # <<>> /\ ~q[Len(q)].final
  <2>1. \A i \in 1..Len(q) : i \in 1..(Len(q) - 1) \/ i = Len(q)
    BY <1>0
  <2>2. \A i \in 1..(Len(q) - 1) : i \in 1..Len(q)
    BY <1>1
  <2>3. {i \in DOMAIN q : q[i].final} = 1..(Len(q) - 1)
    BY <1>1, <1>3, <2>1, <2>2
  <2>4. Cardinality(1..(Len(q) - 1)) = Len(q) - 1
    <3>1. Len(q) - 1 \in Int /\ 1 \in Int
      BY <1>1
    <3>2. Cardinality(1..(Len(q) - 1)) = IF 1 > Len(q) - 1 THEN 0 ELSE (Len(q) - 1) - 1 + 1
      BY <3>1, FS_Interval
    <3> QED
      BY <1>1, <1>3, <3>2
  <2> QED
    BY <1>3, <2>3, <2>4 DEF FinalsIn
<1> QED
  BY <1>2, <1>3

LEMMA FinalCounts ==
  ASSUME NEW q \in Seq(Req), NEW r \in Req, r.final, QueueOk(q), ~Overrun(q),
         \A i \in 1..Len(q) : ~q[i].final => q[i].turn = r.turn
  PROVE  LET p == FinalPushed(q, r) IN QueueOk(p) /\ \A i \in 1..Len(p) : p[i].final
<1> PICK p : p = FinalPushed(q, r)
  OBVIOUS
<1>0. Len(q) \in Nat /\ (q = <<>> <=> Len(q) = 0) /\ MaxPending \in Nat
  BY EmptySeq, LenProperties, WhisperAssumption
<1>1. /\ p \in Seq(Req) /\ Len(p) \in Nat /\ Len(p) >= 1 /\ p[Len(p)] = r
      /\ Len(p) = Len(q) + 1 \/ (Len(p) = Len(q) /\ ~q[Len(q)].final)
      /\ \A i \in 1..(Len(p) - 1) : p[i] = q[i]
      /\ q # <<>> /\ ~q[Len(q)].final /\ q[Len(q)].turn = r.turn => Len(p) = Len(q)
  <2>1. /\ Pushed(q, r, p)
        /\ q # <<>> /\ ~q[Len(q)].final /\ q[Len(q)].turn = r.turn => Len(p) = Len(q)
    BY PushSays
  <2> QED
    BY <2>1 DEF Pushed
<1>2. FinalsIn(q) = IF q = <<>> \/ q[Len(q)].final THEN Len(q) ELSE Len(q) - 1
  BY FinalsCount DEF QueueOk
<1>3. FinalsIn(q) < MaxPending /\ \A i \in 1..(Len(q) - 1) : q[i].final
  BY <1>0, <1>2 DEF QueueOk, Overrun
<1>4. \A i \in 1..(Len(p) - 1) : p[i].final
  <2> SUFFICES ASSUME NEW i \in 1..(Len(p) - 1) PROVE q[i].final
    BY <1>1
  <2>1. CASE i \in 1..(Len(q) - 1)
    BY <1>3, <2>1
  <2>2. CASE i \notin 1..(Len(q) - 1)
    <3>1. i = Len(q) /\ Len(p) = Len(q) + 1 /\ q # <<>>
      BY <1>0, <1>1, <2>2
    <3>2. ~q[Len(q)].final => q[Len(q)].turn = r.turn
      BY <1>0, <3>1
    <3> QED
      BY <1>0, <1>1, <3>1, <3>2
  <2> QED
    BY <2>1, <2>2
<1>5. \A i \in 1..Len(p) : p[i].final
  <2>1. \A i \in 1..Len(p) : i \in 1..(Len(p) - 1) \/ i = Len(p)
    BY <1>1
  <2> QED
    BY <1>1, <1>4, <2>1
<1>6. Len(p) <= MaxPending
  <2>1. CASE q = <<>> \/ q[Len(q)].final
    <3>1. FinalsIn(q) = Len(q)
      BY <1>2, <2>1
    <3>2. Len(p) <= Len(q) + 1
      BY <1>0, <1>1
    <3> QED
      BY <1>0, <1>1, <1>3, <3>1, <3>2
  <2>2. CASE q # <<>> /\ ~q[Len(q)].final
    <3>1. FinalsIn(q) = Len(q) - 1
      BY <1>2, <2>2
    <3>2. q[Len(q)].turn = r.turn
      BY <1>0, <2>2
    <3>3. Len(p) = Len(q)
      BY <1>1, <2>2, <3>2
    <3> QED
      BY <1>0, <1>3, <3>1, <3>3
  <2> QED
    BY <2>1, <2>2
<1>7. FinalsIn(p) = Len(p)
  <2>1. FinalsIn(p) = IF p = <<>> \/ p[Len(p)].final THEN Len(p) ELSE Len(p) - 1
    BY <1>1, <1>4, FinalsCount
  <2>2. p[Len(p)].final
    BY <1>1
  <2> QED
    BY <2>1, <2>2
<1> QED
  BY <1>0, <1>1, <1>4, <1>5, <1>6, <1>7 DEF QueueOk

LEMMA PartialCounts ==
  ASSUME NEW q \in Seq(Req), NEW r \in Req, QueueOk(q), ~r.final
  PROVE  LET p == PartialPushed(q, r)
         IN  QueueOk(p) /\ \A i \in 1..Len(p) : ~p[i].final => p[i] = r
<1> PICK p : p = PartialPushed(q, r)
  OBVIOUS
<1>0. Len(q) \in Nat /\ (q = <<>> <=> Len(q) = 0) /\ MaxPending \in Nat
  BY EmptySeq, LenProperties, WhisperAssumption
<1>1. /\ p \in Seq(Req) /\ Len(p) \in Nat /\ Len(p) >= 1 /\ p[Len(p)] = r
      /\ Len(p) = Len(q) + 1 \/ (Len(p) = Len(q) /\ ~q[Len(q)].final)
      /\ \A i \in 1..(Len(p) - 1) : p[i] = q[i]
      /\ q # <<>> /\ ~q[Len(q)].final => Len(p) = Len(q)
  <2>1. Pushed(q, r, p) /\ (q # <<>> /\ ~q[Len(q)].final => Len(p) = Len(q))
    BY PushSays
  <2> QED
    BY <2>1 DEF Pushed
<1>2. FinalsIn(q) = IF q = <<>> \/ q[Len(q)].final THEN Len(q) ELSE Len(q) - 1
  BY FinalsCount DEF QueueOk
<1>3. /\ FinalsIn(q) <= MaxPending /\ Len(q) <= MaxPending + 1
      /\ \A i \in 1..(Len(q) - 1) : q[i].final
  BY DEF QueueOk
<1>4. Len(p) - 1 = FinalsIn(q)
  <2>1. CASE q = <<>> \/ q[Len(q)].final
    <3>1. Len(p) = Len(q) + 1
      BY <1>0, <1>1, <2>1
    <3> QED
      BY <1>0, <1>2, <2>1, <3>1
  <2>2. CASE q # <<>> /\ ~q[Len(q)].final
    BY <1>0, <1>1, <1>2, <2>2
  <2> QED
    BY <2>1, <2>2
<1>5. \A i \in 1..(Len(p) - 1) : p[i].final
  <2> SUFFICES ASSUME NEW i \in 1..(Len(p) - 1) PROVE q[i].final
    BY <1>1
  <2>1. CASE i \in 1..(Len(q) - 1)
    BY <1>3, <2>1
  <2>2. CASE i \notin 1..(Len(q) - 1)
    <3>1. i = Len(q) /\ Len(p) = Len(q) + 1 /\ q # <<>>
      BY <1>0, <1>1, <2>2
    <3> QED
      BY <1>0, <1>1, <3>1
  <2> QED
    BY <2>1, <2>2
<1>6. FinalsIn(p) = Len(p) - 1
  <2>1. FinalsIn(p) = IF p = <<>> \/ p[Len(p)].final THEN Len(p) ELSE Len(p) - 1
    BY <1>1, <1>5, FinalsCount
  <2>2. ~p[Len(p)].final /\ p # <<>>
    BY <1>1, EmptySeq
  <2> QED
    BY <2>1, <2>2
<1>7. \A i \in 1..Len(p) : ~p[i].final => p[i] = r
  <2>1. \A i \in 1..Len(p) : i \in 1..(Len(p) - 1) \/ i = Len(p)
    BY <1>1
  <2> QED
    BY <1>1, <1>5, <2>1
<1>8. Len(p) <= MaxPending + 1 /\ FinalsIn(p) <= MaxPending
  BY <1>0, <1>1, <1>3, <1>4, <1>6
<1> QED
  BY <1>5, <1>7, <1>8 DEF QueueOk

(* The worker takes the head.                                              *)
LEMMA TailCounts ==
  ASSUME NEW q \in Seq(Req), q # <<>>, QueueOk(q)
  PROVE  QueueOk(Tail(q)) /\ Elems(Tail(q)) \subseteq Elems(q)
<1> PICK p : p = Tail(q)
  OBVIOUS
<1>0. Len(q) \in Nat /\ Len(q) # 0 /\ MaxPending \in Nat
  BY EmptySeq, LenProperties, WhisperAssumption
<1>1. p \in Seq(Req) /\ Len(p) = Len(q) - 1 /\ \A i \in 1..Len(p) : p[i] = q[i + 1]
  BY HeadTailProperties
<1>2. \A i \in 1..(Len(p) - 1) : i + 1 \in 1..(Len(q) - 1) /\ i \in 1..Len(p)
  BY <1>0, <1>1
<1>3. \A i \in 1..(Len(p) - 1) : p[i].final
  BY <1>1, <1>2 DEF QueueOk
<1>4. /\ FinalsIn(q) = IF q = <<>> \/ q[Len(q)].final THEN Len(q) ELSE Len(q) - 1
      /\ FinalsIn(p) = IF p = <<>> \/ p[Len(p)].final THEN Len(p) ELSE Len(p) - 1
  BY <1>1, <1>3, FinalsCount DEF QueueOk
<1>5. FinalsIn(p) <= FinalsIn(q)
  <2>1. FinalsIn(p) <= Len(p) /\ FinalsIn(q) >= Len(q) - 1
    BY <1>0, <1>1, <1>4
  <2> QED
    BY <1>0, <1>1, <1>4, <2>1
<1>6. Len(p) <= MaxPending + 1 /\ FinalsIn(p) <= MaxPending
  <2>1. FinalsIn(p) \in Int /\ FinalsIn(q) \in Int /\ FinalsIn(q) <= MaxPending
    BY <1>0, <1>1, <1>4 DEF QueueOk
  <2> QED
    BY <1>0, <1>1, <1>5, <2>1 DEF QueueOk
<1>7. Elems(p) \subseteq Elems(q)
  <2>1. \A i \in 1..Len(p) : i + 1 \in 1..Len(q)
    BY <1>0, <1>1
  <2> QED
    BY <1>1, <2>1 DEF Elems
<1> QED
  BY <1>3, <1>6, <1>7 DEF QueueOk

---------------------------------------------------------------------------
(* Lemmas about the order of hypotheses. *)

LEMMA PrefixIs ==
  ASSUME NEW a \in Seq(Nat), NEW b \in Seq(Nat)
  PROVE  IsPrefix(a, b) <=> Len(a) <= Len(b) /\ \A i \in 1..Len(a) : a[i] = b[i]
<1>1. PICK n \in Nat : n = Len(a)
  BY LenProperties
<1>2. CASE n <= Len(b)
  <2>1. /\ \A i \in 1..n : a[i] \in Nat
        /\ \A i \in 1..n : b[i] \in Nat
    <3>1. Len(b) \in Nat /\ \A i \in 1..n : i \in 1..Len(a) /\ i \in 1..Len(b)
      BY <1>1, <1>2, LenProperties
    <3> QED
      BY <3>1, ElementOfSeq
  <2> PICK c : c = SubSeq(a, 1, n)
    OBVIOUS
  <2> PICK d : d = SubSeq(b, 1, n)
    OBVIOUS
  <2>2. /\ c \in Seq(Nat) /\ Len(c) = IF 1 <= n THEN n - 1 + 1 ELSE 0
        /\ \A i \in 1..(n - 1 + 1) : c[i] = a[1 + i - 1]
    BY <2>1, SubSeqProperties
  <2>3. /\ d \in Seq(Nat) /\ Len(d) = IF 1 <= n THEN n - 1 + 1 ELSE 0
        /\ \A i \in 1..(n - 1 + 1) : d[i] = b[1 + i - 1]
    BY <2>1, SubSeqProperties
  <2>4. n - 1 + 1 = n /\ \A i \in 1..n : 1 + i - 1 = i
    OBVIOUS
  <2>5. /\ Len(c) = n /\ Len(d) = n
        /\ \A i \in 1..n : c[i] = a[i] /\ d[i] = b[i]
    BY <2>2, <2>3, <2>4
  <2>6. c = d <=> \A i \in 1..n : a[i] = b[i]
    <3>1. ASSUME \A i \in 1..n : a[i] = b[i] PROVE c = d
      <4>1. \A i \in 1..Len(c) : c[i] = d[i]
        BY <2>5, <3>1
      <4> QED
        BY <2>2, <2>3, <2>5, <4>1, SeqEqual
    <3> QED
      BY <2>5, <3>1
  <2> QED
    BY <1>1, <1>2, <2>6 DEF IsPrefix
<1>3. CASE ~(n <= Len(b))
  BY <1>1, <1>3 DEF IsPrefix
<1> QED
  BY <1>2, <1>3

LEMMA PrefixProperties ==
  ASSUME NEW a \in Seq(Nat), NEW b \in Seq(Nat), NEW c \in Seq(Nat)
  PROVE  /\ IsPrefix(a, a) /\ IsPrefix(a, a \o c)
         /\ IsPrefix(a, b) /\ IsPrefix(b, c) => IsPrefix(a, c)
<1>1. Len(a) \in Nat /\ Len(b) \in Nat /\ Len(c) \in Nat
  BY LenProperties
<1>2. IsPrefix(a, a)
  BY <1>1, PrefixIs
<1>3. IsPrefix(a, a \o c)
  <2> PICK d : d = a \o c
    OBVIOUS
  <2>1. /\ d \in Seq(Nat) /\ Len(d) = Len(a) + Len(c)
        /\ \A i \in 1..(Len(a) + Len(c)) :
             d[i] = IF i <= Len(a) THEN a[i] ELSE c[i - Len(a)]
    BY ConcatProperties, Zenon
  <2>2. \A i \in 1..Len(a) : d[i] = a[i]
    <3>1. \A i \in 1..Len(a) : i \in 1..(Len(a) + Len(c)) /\ i <= Len(a)
      BY <1>1
    <3> QED
      BY <2>1, <3>1
  <2>3. Len(a) <= Len(d)
    BY <1>1, <2>1
  <2> QED
    BY <2>1, <2>2, <2>3, PrefixIs
<1>4. ASSUME IsPrefix(a, b), IsPrefix(b, c) PROVE IsPrefix(a, c)
  <2>1. /\ Len(a) <= Len(b) /\ \A i \in 1..Len(a) : a[i] = b[i]
        /\ Len(b) <= Len(c) /\ \A i \in 1..Len(b) : b[i] = c[i]
    BY <1>4, PrefixIs
  <2>2. \A i \in 1..Len(a) : i \in 1..Len(b)
    BY <1>1, <2>1
  <2>3. Len(a) <= Len(c) /\ \A i \in 1..Len(a) : a[i] = c[i]
    BY <1>1, <2>1, <2>2
  <2> QED
    BY <2>3, PrefixIs
<1> QED
  BY <1>2, <1>3, <1>4

LEMMA PushFlow ==
  ASSUME NEW S, NEW q \in Seq(Req), NEW r \in Req, NEW p, Pushed(q, r, p),
         InOrder(q), AllBefore(S, Elems(q)), \A a \in S \cup Elems(q) : Before(a, r)
  PROVE  InOrder(p) /\ AllBefore(S, Elems(p)) /\ Elems(p) \subseteq Elems(q) \cup {r}
<1>1. /\ Len(q) \in Nat /\ Len(p) \in Nat /\ p[Len(p)] = r
      /\ Len(p) = Len(q) + 1 \/ Len(p) = Len(q)
      /\ \A i \in 1..(Len(p) - 1) : p[i] = q[i]
  BY LenProperties DEF Pushed
<1>2. /\ \A i \in 1..Len(p) : i \in 1..(Len(p) - 1) \/ i = Len(p)
      /\ \A i \in 1..(Len(p) - 1) : i \in 1..Len(q)
  BY <1>1
<1>3. \A i \in 1..(Len(p) - 1) : p[i] \in Elems(q)
  BY <1>1, <1>2 DEF Elems
<1>4. Elems(p) \subseteq Elems(q) \cup {r}
  BY <1>1, <1>2, <1>3 DEF Elems
<1>5. InOrder(p)
  <2> SUFFICES ASSUME NEW i \in 1..Len(p), NEW j \in 1..Len(p), i < j
               PROVE  Before(p[i], p[j])
    BY DEF InOrder
  <2>1. i \in 1..(Len(p) - 1)
    BY <1>1
  <2>2. CASE j \in 1..(Len(p) - 1)
    <3>1. p[i] = q[i] /\ p[j] = q[j] /\ i \in 1..Len(q) /\ j \in 1..Len(q)
      BY <1>1, <1>2, <2>1, <2>2
    <3> QED
      BY <3>1 DEF InOrder
  <2>3. CASE j = Len(p)
    BY <1>1, <1>3, <2>1, <2>3
  <2> QED
    BY <1>2, <2>2, <2>3
<1>6. AllBefore(S, Elems(p))
  BY <1>4 DEF AllBefore
<1> QED
  BY <1>4, <1>5, <1>6

(* The output queue takes the end of the stream, or a hypothesis.          *)
LEMMA OutEnds ==
  ASSUME NEW o \in Seq(Item), NEW item \in {Failure, EndOfStream}
  PROVE  LET p == Append(o, item)
         IN  /\ p \in Seq(Item) /\ Hyps(p) = Hyps(o)
             /\ TokensInOrder(o) => TokensInOrder(p)
<1> PICK p : p = Append(o, item)
  OBVIOUS
<1>1. item \in Item /\ item.kind # "tokens"
  BY DEF Item, Failure, EndOfStream
<1>2. /\ p \in Seq(Item) /\ Len(o) \in Nat /\ Len(p) = Len(o) + 1 /\ p[Len(o) + 1] = item
      /\ \A i \in 1..Len(o) : p[i] = o[i]
  BY <1>1, AppendProperties
<1>3. \A i \in 1..Len(p) : i \in 1..Len(o) \/ i = Len(o) + 1
  BY <1>2
<1>4. \A i \in 1..Len(o) : i \in 1..Len(p)
  BY <1>2
<1>5. Tokens(p) = Tokens(o)
  BY <1>1, <1>2, <1>3, <1>4 DEF Tokens
<1>6. \A i \in Tokens(o) : p[i] = o[i]
  BY <1>2 DEF Tokens
<1>7. Hyps(p) = Hyps(o)
  BY <1>5, <1>6 DEF Hyps
<1>8. TokensInOrder(o) => TokensInOrder(p)
  BY <1>5, <1>6 DEF TokensInOrder
<1> QED
  BY <1>2, <1>7, <1>8

LEMMA OutDecodes ==
  ASSUME NEW o \in Seq(Item), NEW r \in Req
  PROVE  LET p == Append(o, [kind |-> "tokens", hyp |-> r])
         IN  /\ p \in Seq(Item) /\ Hyps(p) = Hyps(o) \cup {r}
             /\ TokensInOrder(o) /\ (\A a \in Hyps(o) : Before(a, r)) => TokensInOrder(p)
<1> PICK item : item = [kind |-> "tokens", hyp |-> r]
  OBVIOUS
<1> PICK p : p = Append(o, item)
  OBVIOUS
<1>1. item \in Item /\ item.kind = "tokens" /\ item.hyp = r
  BY DEF Item
<1>2. /\ p \in Seq(Item) /\ Len(o) \in Nat /\ Len(p) = Len(o) + 1 /\ p[Len(o) + 1] = item
      /\ \A i \in 1..Len(o) : p[i] = o[i]
  BY <1>1, AppendProperties
<1>3. \A i \in 1..Len(p) : i \in 1..Len(o) \/ i = Len(o) + 1
  BY <1>2
<1>4. (\A i \in 1..Len(o) : i \in 1..Len(p)) /\ Len(o) + 1 \in 1..Len(p)
  BY <1>2
<1>5. Tokens(p) = Tokens(o) \cup {Len(o) + 1}
  BY <1>1, <1>2, <1>3, <1>4 DEF Tokens
<1>6. \A i \in Tokens(o) : p[i] = o[i] /\ i \in 1..Len(o)
  BY <1>2 DEF Tokens
<1>7. Hyps(p) = Hyps(o) \cup {r}
  BY <1>1, <1>2, <1>5, <1>6 DEF Hyps
<1>8. ASSUME TokensInOrder(o), \A a \in Hyps(o) : Before(a, r) PROVE TokensInOrder(p)
  <2> SUFFICES ASSUME NEW i \in Tokens(p), NEW j \in Tokens(p), i < j
               PROVE  Before(p[i].hyp, p[j].hyp)
    BY DEF TokensInOrder
  <2>1. i \in Tokens(o)
    <3>1. i \in 1..Len(p) /\ j \in 1..Len(p)
      BY DEF Tokens
    <3>2. i # Len(o) + 1
      BY <1>2, <3>1
    <3> QED
      BY <1>5, <3>2
  <2>2. CASE j \in Tokens(o)
    BY <1>6, <1>8, <2>1, <2>2 DEF TokensInOrder
  <2>3. CASE j = Len(o) + 1
    <3>1. p[i].hyp \in Hyps(o)
      BY <1>6, <2>1 DEF Hyps
    <3> QED
      BY <1>1, <1>2, <1>8, <2>3, <3>1
  <2> QED
    BY <1>5, <2>2, <2>3
<1> QED
  BY <1>2, <1>7, <1>8

(* The caller takes the head of the output queue.                          *)
LEMMA OutTaken ==
  ASSUME NEW o \in Seq(Item), o # <<>>
  PROVE  /\ Tail(o) \in Seq(Item) /\ Head(o) \in Item /\ Hyps(Tail(o)) \subseteq Hyps(o)
         /\ TokensInOrder(o) => TokensInOrder(Tail(o))
         /\ Head(o).kind = "tokens" =>
              /\ Head(o).hyp \in Hyps(o)
              /\ TokensInOrder(o) => \A b \in Hyps(Tail(o)) : Before(Head(o).hyp, b)
<1> PICK p : p = Tail(o)
  OBVIOUS
<1>1. /\ p \in Seq(Item) /\ Len(p) = Len(o) - 1 /\ \A i \in 1..Len(p) : p[i] = o[i + 1]
      /\ Len(o) \in Nat /\ Len(o) # 0 /\ Head(o) = o[1] /\ Head(o) \in Item
  BY HeadTailProperties, EmptySeq
<1>2. \A i \in Tokens(p) : i \in 1..Len(p) /\ i + 1 \in Tokens(o) /\ p[i] = o[i + 1]
  <2>1. \A i \in 1..Len(p) : i + 1 \in 1..Len(o)
    BY <1>1
  <2> QED
    BY <1>1, <2>1 DEF Tokens
<1>3. Hyps(p) \subseteq Hyps(o)
  BY <1>2 DEF Hyps
<1>4. TokensInOrder(o) => TokensInOrder(p)
  <2> SUFFICES ASSUME TokensInOrder(o), NEW i \in Tokens(p), NEW j \in Tokens(p), i < j
               PROVE  Before(p[i].hyp, p[j].hyp)
    BY DEF TokensInOrder
  <2>1. i + 1 < j + 1
    BY <1>1, <1>2
  <2> QED
    BY <1>2, <2>1 DEF TokensInOrder
<1>5. ASSUME Head(o).kind = "tokens"
      PROVE  /\ Head(o).hyp \in Hyps(o)
             /\ TokensInOrder(o) => \A b \in Hyps(p) : Before(Head(o).hyp, b)
  <2>1. 1 \in Tokens(o)
    <3>1. 1 \in 1..Len(o)
      BY <1>1
    <3> QED
      BY <1>1, <1>5, <3>1 DEF Tokens
  <2>2. Head(o).hyp \in Hyps(o)
    BY <1>1, <2>1 DEF Hyps
  <2>3. ASSUME TokensInOrder(o), NEW i \in Tokens(p) PROVE Before(Head(o).hyp, p[i].hyp)
    <3>1. 1 < i + 1
      BY <1>1, <1>2
    <3> QED
      BY <1>1, <1>2, <2>1, <2>3, <3>1 DEF TokensInOrder
  <2> QED
    BY <2>2, <2>3 DEF Hyps
<1> QED
  BY <1>1, <1>3, <1>4, <1>5

---------------------------------------------------------------------------
(* The steps of the ingest task, as the invariants need them. *)

LEMMA RequestTypes ==
  ASSUME NEW t \in Nat, NEW f \in BOOLEAN, NEW q \in Seq(Nat)
  PROVE  /\ Request(t, f, q) \in Req
         /\ Request(t, f, q).turn = t /\ Request(t, f, q).final = f
         /\ Request(t, f, q).frames = q
<1> PICK r : r = Request(t, f, q)
  OBVIOUS
<1>1. r = [turn |-> t, final |-> f, frames |-> q]
  BY DEF Request
<1>2. r \in Req
  BY <1>1 DEF Req
<1>3. r.turn = t /\ r.final = f /\ r.frames = q
  <2>1. /\ [turn |-> t, final |-> f, frames |-> q].turn = t
        /\ [turn |-> t, final |-> f, frames |-> q].final = f
        /\ [turn |-> t, final |-> f, frames |-> q].frames = q
    BY Zenon
  <2> QED
    BY <1>1, <2>1, Zenon
<1> QED
  BY <1>2, <1>3

LEMMA RequestSays ==
  ASSUME NEW t \in Nat, NEW q \in Seq(Nat)
  PROVE  /\ \E f \in Req : f = Request(t, TRUE, q) /\ f.turn = t /\ f.final
         /\ \E r \in Req : /\ r = Request(t, FALSE, q) /\ r.turn = t /\ ~r.final
                           /\ r.frames = q
<1>1. TRUE \in BOOLEAN /\ FALSE \in BOOLEAN
  OBVIOUS
<1>2. PICK f : f = Request(t, TRUE, q)
  OBVIOUS
<1>3. PICK r : r = Request(t, FALSE, q)
  OBVIOUS
<1>4. f \in Req /\ f.turn = t /\ f.final = TRUE
  BY <1>1, <1>2, RequestTypes, Zenon
<1>5. r \in Req /\ r.turn = t /\ r.final = FALSE /\ r.frames = q
  <2>1. r = [turn |-> t, final |-> FALSE, frames |-> q]
    BY <1>3 DEF Request
  <2>2. r \in Req
    BY <2>1 DEF Req
  <2>3. r.turn = t /\ r.final = FALSE /\ r.frames = q
    BY <2>1
  <2> QED
    BY <2>2, <2>3
<1>6. f.final /\ ~r.final
  BY <1>4, <1>5, Zenon
<1> QED
  BY <1>2, <1>3, <1>4, <1>5, <1>6, Zenon

(* What a frame does to the turns.                                         *)
TurnChange(a) ==
  \/ /\ turns' = turns + 1 /\ turn' = turns + 1 /\ a.ends = detector.inTurn
     /\ buffer' = (IF a.ends THEN <<>> ELSE buffer) \o a.frames
  \/ /\ turns' = turns /\ turn' = 0 /\ a.due = FALSE /\ a.ends = detector.inTurn
     /\ buffer' = <<>>
  \/ /\ turns' = turns /\ turn' = turn /\ a.ends = FALSE /\ detector.inTurn
     /\ buffer' = buffer \o a.frames

(* What it submits.                                                        *)
Submission(a) ==
  \/ a.ends /\ Overrun(queue) /\ IngestFails
  \/ /\ ~(a.ends /\ Overrun(queue)) /\ UNCHANGED <<ingest, error, out>>
     /\ \E q :
          /\ q = IF a.ends THEN FinalPushed(queue, Request(turn, TRUE, buffer)) ELSE queue
          /\ queue' = IF a.due THEN PartialPushed(q, Request(turn', FALSE, buffer')) ELSE q
     /\ finals' = IF a.ends THEN Append(finals, Request(turn, TRUE, buffer)) ELSE finals

ActionOk(a) ==
  /\ a.detector \in Detector /\ a.ends \in BOOLEAN /\ a.frames \in Seq(Nat)
  /\ a.due \in BOOLEAN

LEMMA IngestFrameSays ==
  ASSUME Types, CutInv, NEW x \in BOOLEAN, IngestFrame(x)
  PROVE  /\ ingest = "running" /\ loud' = Append(loud, x) /\ OpenInv
         /\ UNCHANGED <<eof, pump, request, stream, emitted, tailEnds>>
         /\ \E a : detector' = a.detector /\ ActionOk(a) /\ TurnChange(a) /\ Submission(a)
<1>1. /\ ingest = "running" /\ loud' = Append(loud, x)
      /\ UNCHANGED <<eof, pump, request, stream, emitted, tailEnds>>
  BY DEF IngestFrame, pumping, history
<1>2. VadInv(loud, detector.vad) /\ OpenInv
  BY <1>1 DEF CutInv, TurnInv
<1> PICK a : a = Feed(detector, Len(loud) + 1, x)
  OBVIOUS
<1>3. PICK v \in Vad :
        /\ v = VadAfter(detector.vad, [loud |-> x])
        /\ Len(loud') = Len(loud) + 1 /\ Len(loud) \in Nat
  BY <1>1, <1>2, AudioStep
<1>4. /\ detector' = a.detector
      /\ turns' = turns + IF a.starts THEN 1 ELSE 0
      /\ turn' = IF a.starts THEN turns' ELSE IF a.ends THEN 0 ELSE turn
      /\ buffer' = (IF a.ends THEN <<>> ELSE buffer) \o a.frames
      /\ Submit(IF a.ends THEN Request(turn, TRUE, buffer) ELSE Nothing,
                IF a.due THEN Request(turn', FALSE, buffer') ELSE Nothing)
  BY <1>3 DEF IngestFrame
<1>5. /\ detector \in Detector /\ detector.inTurn \in BOOLEAN /\ buffer \in Seq(Nat)
      /\ turn \in Nat /\ turns \in Nat
  BY TypesSay
<1>6. /\ \/ StartsTurn(detector, a, Len(loud) + 1)
         \/ LeavesQuiet(detector, a, Len(loud) + 1)
         \/ GoesOn(detector, a, Len(loud) + 1, v.inSpeech)
      /\ ActionTypes(a)
  <2>1. Len(loud) + 1 \in Nat
    BY <1>3
  <2> QED
    BY <1>3, <1>5, <2>1, FeedSays
<1>7. ActionOk(a) /\ (a.due => a.frames # <<>>) /\ a.ends \in BOOLEAN /\ a.due \in BOOLEAN
  BY <1>6 DEF ActionTypes, ActionOk
<1>8. TurnChange(a)
  <2>1. CASE StartsTurn(detector, a, Len(loud) + 1)
    <3>1. a.starts = TRUE /\ a.ends = detector.inTurn
      BY <1>5, <2>1 DEF StartsTurn
    <3>2. turns' = turns + 1 /\ turn' = turns + 1
      BY <1>4, <3>1
    <3> QED
      BY <1>4, <3>1, <3>2 DEF TurnChange
  <2>2. CASE LeavesQuiet(detector, a, Len(loud) + 1)
    <3>1. a.starts = FALSE /\ a.ends = detector.inTurn /\ a.frames = <<>> /\ a.due = FALSE
      BY <1>7, <2>2 DEF LeavesQuiet
    <3>2. ~detector.inTurn => turn = 0 /\ buffer = <<>>
      BY <1>2 DEF OpenInv
    <3>3. turns' = turns + 0 /\ turn' = IF a.ends THEN 0 ELSE turn
      BY <1>4, <3>1
    <3>4. turn' = 0 /\ buffer' = <<>> \o <<>>
      BY <1>4, <1>5, <3>1, <3>2, <3>3
    <3>5. <<>> \o <<>> = <<>>
      BY EmptySeq, ConcatEmptySeq
    <3>6. turns' = turns
      BY <1>5, <3>3
    <3> QED
      BY <3>1, <3>4, <3>5, <3>6 DEF TurnChange
  <2>3. CASE GoesOn(detector, a, Len(loud) + 1, v.inSpeech)
    <3>1. a.starts = FALSE /\ a.ends = FALSE /\ detector.inTurn
      BY <2>3 DEF GoesOn
    <3>2. turns' = turns + 0 /\ turn' = turn /\ buffer' = buffer \o a.frames
      BY <1>4, <3>1
    <3>3. turns' = turns
      BY <1>5, <3>2
    <3> QED
      BY <3>1, <3>2, <3>3 DEF TurnChange
  <2> QED
    BY <1>6, <2>1, <2>2, <2>3
<1>9. Submission(a)
  <2>1. Request(turn, TRUE, buffer) # Nothing
    BY DEF Request, Nothing
  <2> PICK f : f = IF a.ends THEN Request(turn, TRUE, buffer) ELSE Nothing
    OBVIOUS
  <2> PICK r : r = IF a.due THEN Request(turn', FALSE, buffer') ELSE Nothing
    OBVIOUS
  <2>2. (f # Nothing <=> a.ends) /\ (a.ends => f = Request(turn, TRUE, buffer))
    BY <1>7, <2>1
  <2>3. (r # Nothing => a.due) /\ (a.due => r = Request(turn', FALSE, buffer'))
    BY <1>7
  <2>4. Submit(f, r)
    BY <1>4
  <2>5. CASE a.ends /\ Overrun(queue)
    BY <2>2, <2>4, <2>5 DEF Submit, Submission
  <2>6. CASE ~(a.ends /\ Overrun(queue))
    <3>1. PICK q : q = IF f = Nothing THEN queue ELSE FinalPushed(queue, f)
      OBVIOUS
    <3>2. /\ UNCHANGED <<ingest, error, out>>
          /\ queue' = IF r = Nothing THEN q ELSE PartialPushed(q, r)
          /\ finals' = IF f = Nothing THEN finals ELSE Append(finals, f)
      BY <2>2, <2>4, <2>6, <3>1 DEF Submit
    <3>3. q = IF a.ends THEN FinalPushed(queue, Request(turn, TRUE, buffer)) ELSE queue
      BY <2>2, <3>1
    <3>4. finals' = IF a.ends THEN Append(finals, Request(turn, TRUE, buffer)) ELSE finals
      BY <2>2, <3>2
    <3>5. queue' = IF a.due THEN PartialPushed(q, Request(turn', FALSE, buffer')) ELSE q
      <4>1. ASSUME a.due PROVE Request(turn', FALSE, buffer') # Nothing
        <5>1. a.frames # <<>> /\ a.frames \in Seq(Nat)
          BY <1>7, <4>1 DEF ActionOk
        <5>k. PICK kept : kept = IF a.ends THEN <<>> ELSE buffer
          OBVIOUS
        <5>2. kept \in Seq(Nat) /\ buffer' = kept \o a.frames
          BY <1>4, <1>5, <5>k, EmptySeq
        <5>3. Len(kept) \in Nat /\ Len(a.frames) \in Nat /\ Len(a.frames) # 0
          BY <5>1, <5>2, EmptySeq, LenProperties
        <5>4. Len(buffer') = Len(kept) + Len(a.frames)
          <6>1. Len(kept \o a.frames) = Len(kept) + Len(a.frames)
            BY <5>1, <5>2, ConcatProperties
          <6> QED
            BY <5>2, <6>1, Zenon
        <5>5. Len(buffer') # 0
          BY <5>3, <5>4
        <5>6. buffer' # <<>>
          BY <5>5, EmptySeq
        <5> QED
          BY <5>6 DEF Request, Nothing
      <4> QED
        BY <1>7, <2>3, <3>2, <4>1
    <3> QED
      BY <2>6, <3>2, <3>3, <3>4, <3>5 DEF Submission
  <2> QED
    BY <2>5, <2>6
<1> QED
  BY <1>1, <1>2, <1>4, <1>7, <1>8, <1>9

(* What the end of the source does to the turns, and submits.              *)
LEMMA EndOfAudioSays ==
  ASSUME Types, CutInv, NEW tail \in BOOLEAN, NEW x \in BOOLEAN, EndOfAudio(tail, x)
  PROVE  /\ ingest = "running" /\ OpenInv /\ UNCHANGED <<turn, pump, request, stream, emitted>>
         /\ detector' \in Detector /\ tailEnds' \in BOOLEAN
         /\ \E frames \in Seq(Nat) : buffer' = buffer \o frames
         /\ \/ turns' = turns /\ loud' = loud
            \/ (turns' = turns \/ turns' = turns + 1) /\ loud' = Append(loud, x)
         /\ \/ UNCHANGED eof /\ IngestFails
            \/ /\ ingest' = "done" /\ eof' = TRUE /\ UNCHANGED <<error, out>>
               /\ \/ UNCHANGED <<queue, finals>>
                  \/ /\ detector.inTurn /\ ~Overrun(queue)
                     /\ queue' = FinalPushed(queue, Request(turn, TRUE, buffer'))
                     /\ finals' = Append(finals, Request(turn, TRUE, buffer'))
<1>1. PICK a : a = IF tail /\ detector.inTurn THEN Feed(detector, Len(loud) + 1, x)
                   ELSE Action(detector, FALSE, FALSE, <<>>)
  OBVIOUS
<1>2. /\ ingest = "running" /\ UNCHANGED <<turn, pump, request, stream, emitted>>
      /\ loud' = IF tail /\ detector.inTurn THEN Append(loud, x) ELSE loud
      /\ buffer' = buffer \o a.frames
      /\ tailEnds' = (a.ends /\ ~a.starts)
      /\ detector' = Closed(a.detector)
      /\ turns' = turns + IF a.starts THEN 1 ELSE 0
      /\ IF a.detector.inTurn /\ Overrun(queue) THEN IngestFails /\ UNCHANGED eof
         ELSE /\ ingest' = "done" /\ eof' = TRUE
              /\ IF a.detector.inTurn
                   THEN /\ queue' = FinalPushed(queue, Request(turn, TRUE, buffer'))
                        /\ finals' = Append(finals, Request(turn, TRUE, buffer'))
                   ELSE UNCHANGED <<queue, finals>>
              /\ UNCHANGED <<error, out>>
  BY <1>1 DEF EndOfAudio, pumping
<1>3. OpenInv /\ VadInv(loud, detector.vad)
  BY <1>2 DEF CutInv, TurnInv
<1>4. /\ detector \in Detector /\ detector.inTurn \in BOOLEAN /\ Len(loud) \in Nat
      /\ detector.vad \in Vad /\ turns \in Nat /\ loud \in Seq(BOOLEAN)
  BY TypesSay
<1>5. /\ a.detector \in Detector /\ a.frames \in Seq(Nat)
      /\ a.ends \in BOOLEAN /\ a.starts \in BOOLEAN
      /\ ~(tail /\ detector.inTurn) => a.detector = detector /\ a.starts = FALSE
  <2>1. CASE tail /\ detector.inTurn
    <3>1. Len(loud) + 1 \in Nat /\ a = Feed(detector, Len(loud) + 1, x)
      BY <1>1, <1>4, <2>1
    <3>2. VadAfter(detector.vad, [loud |-> x]) \in Vad
      BY <1>3, <1>4, VadStep
    <3>3. ActionTypes(a)
      BY <1>4, <3>1, <3>2, FeedSays
    <3> QED
      BY <2>1, <3>3 DEF ActionTypes
  <2>2. CASE ~(tail /\ detector.inTurn)
    <3>1. a = Action(detector, FALSE, FALSE, <<>>) /\ <<>> \in Seq(Nat)
      BY <1>1, <2>2, EmptySeq
    <3>2. /\ a.detector = detector /\ a.starts = FALSE /\ a.ends = FALSE /\ a.frames = <<>>
      BY <3>1 DEF Action
    <3> QED
      BY <1>4, <3>1, <3>2
  <2> QED
    BY <2>1, <2>2
<1>6. detector' \in Detector
  <2>1. PICK d \in Detector : d = a.detector
    BY <1>5
  <2>2. detector' = Closed(d)
    BY <1>2, <2>1
  <2> QED
    BY <2>2, ClosedSays
<1>7. a.detector.inTurn => detector.inTurn
  BY <1>5
<1>8. \/ turns' = turns /\ loud' = loud
      \/ (turns' = turns \/ turns' = turns + 1) /\ loud' = Append(loud, x)
  BY <1>2, <1>4, <1>5
<1>9. tailEnds' \in BOOLEAN
  BY <1>2, <1>5, Zenon
<1> QED
  BY <1>2, <1>3, <1>5, <1>6, <1>7, <1>8, <1>9

---------------------------------------------------------------------------
(* Types. *)

LEMMA IngestFailsTypes ==
  ASSUME Types, IngestFails
  PROVE  /\ ingest' = "failed" /\ error' = TRUE /\ out' \in Seq(Item)
         /\ queue' = queue /\ finals' = finals /\ Hyps(out') = Hyps(out)
         /\ TokensInOrder(out) => TokensInOrder(out')
<1>1. out \in Seq(Item)
  BY DEF Types
<1> QED
  BY <1>1, OutEnds DEF IngestFails

LEMMA IngestFrameTypes ==
  ASSUME Types, CutInv, NEW x \in BOOLEAN, IngestFrame(x)
  PROVE  Types'
<1>1. PICK a :
        /\ loud' = Append(loud, x) /\ UNCHANGED <<eof, pump, request, stream, emitted, tailEnds>>
        /\ detector' = a.detector /\ ActionOk(a) /\ TurnChange(a) /\ Submission(a)
  BY IngestFrameSays
<1>2. /\ loud \in Seq(BOOLEAN) /\ Len(loud) \in Nat /\ turns \in Nat /\ turns <= Len(loud)
      /\ turn \in Nat /\ turn <= turns /\ buffer \in Seq(Nat)
      /\ queue \in Seq(Req) /\ finals \in Seq(Req) /\ out \in Seq(Item)
      /\ ingest \in {"running", "done", "failed"} /\ error \in BOOLEAN
  BY TypesSay DEF Types
<1>3. /\ a.detector \in Detector /\ a.ends \in BOOLEAN /\ a.frames \in Seq(Nat)
      /\ a.due \in BOOLEAN
  BY <1>1 DEF ActionOk
<1>4. loud' \in Seq(BOOLEAN) /\ Len(loud') = Len(loud) + 1
  BY <1>1, <1>2, SpeechKeeps
<1>5. /\ turns' \in Nat /\ turns' <= turns + 1 /\ turn' \in Nat /\ turn' <= turns'
      /\ buffer' \in Seq(Nat)
  <2>1. <<>> \in Seq(Nat) /\ buffer \o a.frames \in Seq(Nat) /\ <<>> \o a.frames \in Seq(Nat)
    BY <1>2, <1>3, EmptySeq, ConcatProperties
  <2>2. buffer' \in Seq(Nat)
    BY <1>1, <1>3, <2>1 DEF TurnChange
  <2>3. \/ turns' = turns + 1 /\ turn' = turns + 1
        \/ turns' = turns /\ turn' = 0
        \/ turns' = turns /\ turn' = turn
    BY <1>1 DEF TurnChange
  <2> QED
    BY <1>2, <2>2, <2>3
<1>6. turns' <= Len(loud')
  BY <1>2, <1>4, <1>5
<1>7. /\ queue' \in Seq(Req) /\ finals' \in Seq(Req) /\ out' \in Seq(Item)
      /\ ingest' \in {"running", "done", "failed"} /\ error' \in BOOLEAN
  <2>1. CASE a.ends /\ Overrun(queue) /\ IngestFails
    BY <1>2, <2>1, IngestFailsTypes
  <2>2. CASE /\ UNCHANGED <<ingest, error, out>>
             /\ \E q :
                  /\ q = IF a.ends THEN FinalPushed(queue, Request(turn, TRUE, buffer))
                         ELSE queue
                  /\ queue' = IF a.due THEN PartialPushed(q, Request(turn', FALSE, buffer'))
                              ELSE q
             /\ finals' = IF a.ends THEN Append(finals, Request(turn, TRUE, buffer))
                          ELSE finals
    <3>1. PICK q :
            /\ q = IF a.ends THEN FinalPushed(queue, Request(turn, TRUE, buffer)) ELSE queue
            /\ queue' = IF a.due THEN PartialPushed(q, Request(turn', FALSE, buffer')) ELSE q
      BY <2>2
    <3>2. PICK f \in Req : f = Request(turn, TRUE, buffer)
      BY <1>2, RequestTypes
    <3>3. PICK r \in Req : r = Request(turn', FALSE, buffer')
      BY <1>5, RequestTypes
    <3>4. q \in Seq(Req)
      BY <1>2, <1>3, <3>1, <3>2, PushSays DEF Pushed
    <3>5. queue' \in Seq(Req)
      BY <1>3, <3>1, <3>3, <3>4, PushSays DEF Pushed
    <3>6. finals' \in Seq(Req)
      BY <1>2, <1>3, <2>2, <3>2, AppendProperties
    <3> QED
      BY <1>2, <2>2, <3>5, <3>6
  <2> QED
    BY <1>1, <2>1, <2>2 DEF Submission
<1> QED
  BY <1>1, <1>3, <1>4, <1>5, <1>6, <1>7 DEF Types

LEMMA EndOfAudioTypes ==
  ASSUME Types, CutInv, NEW tail \in BOOLEAN, NEW x \in BOOLEAN, EndOfAudio(tail, x)
  PROVE  Types'
<1>1. /\ UNCHANGED <<turn, pump, request, stream, emitted>>
      /\ detector' \in Detector /\ tailEnds' \in BOOLEAN
      /\ \E frames \in Seq(Nat) : buffer' = buffer \o frames
      /\ \/ turns' = turns /\ loud' = loud
         \/ (turns' = turns \/ turns' = turns + 1) /\ loud' = Append(loud, x)
      /\ \/ UNCHANGED eof /\ IngestFails
         \/ /\ ingest' = "done" /\ eof' = TRUE /\ UNCHANGED <<error, out>>
            /\ \/ UNCHANGED <<queue, finals>>
               \/ /\ queue' = FinalPushed(queue, Request(turn, TRUE, buffer'))
                  /\ finals' = Append(finals, Request(turn, TRUE, buffer'))
  BY EndOfAudioSays
<1>2. /\ loud \in Seq(BOOLEAN) /\ Len(loud) \in Nat /\ turns \in Nat /\ turns <= Len(loud)
      /\ turn \in Nat /\ turn <= turns /\ buffer \in Seq(Nat)
      /\ queue \in Seq(Req) /\ finals \in Seq(Req) /\ out \in Seq(Item)
      /\ eof \in BOOLEAN /\ error \in BOOLEAN
  BY TypesSay DEF Types
<1>3. buffer' \in Seq(Nat)
  BY <1>1, <1>2, ConcatProperties
<1>4. /\ loud' \in Seq(BOOLEAN) /\ turns' \in Nat /\ turns' <= Len(loud')
      /\ turn' \in Nat /\ turn' <= turns'
  <2>1. CASE turns' = turns /\ loud' = loud
    BY <1>1, <1>2, <2>1
  <2>2. CASE (turns' = turns \/ turns' = turns + 1) /\ loud' = Append(loud, x)
    <3>1. loud' \in Seq(BOOLEAN) /\ Len(loud') = Len(loud) + 1
      BY <1>2, <2>2, SpeechKeeps
    <3> QED
      BY <1>1, <1>2, <2>2, <3>1
  <2> QED
    BY <1>1, <2>1, <2>2
<1>5. /\ queue' \in Seq(Req) /\ finals' \in Seq(Req) /\ out' \in Seq(Item)
      /\ ingest' \in {"running", "done", "failed"} /\ error' \in BOOLEAN /\ eof' \in BOOLEAN
  <2>1. CASE UNCHANGED eof /\ IngestFails
    BY <1>2, <2>1, IngestFailsTypes
  <2>2. CASE /\ ingest' = "done" /\ eof' = TRUE /\ UNCHANGED <<error, out>>
             /\ \/ UNCHANGED <<queue, finals>>
                \/ /\ queue' = FinalPushed(queue, Request(turn, TRUE, buffer'))
                   /\ finals' = Append(finals, Request(turn, TRUE, buffer'))
    <3>1. PICK f \in Req : f = Request(turn, TRUE, buffer')
      BY <1>2, <1>3, RequestTypes
    <3>2. FinalPushed(queue, f) \in Seq(Req) /\ Append(finals, f) \in Seq(Req)
      BY <1>2, PushSays, AppendProperties DEF Pushed
    <3> QED
      BY <1>2, <2>2, <3>1, <3>2
  <2> QED
    BY <1>1, <2>1, <2>2
<1> QED
  BY <1>1, <1>3, <1>4, <1>5 DEF Types

(* The steps of the pump and the caller.                                   *)
Others ==
  \/ SourceFails \/ PumpTakes \/ PumpEnds \/ Receive \/ Close
  \/ \E answer \in {"tokens", "nothing", "error"} : WorkerAnswers(answer)

LEMMA OthersTypes ==
  ASSUME Types, Others
  PROVE  /\ Types' /\ UNCHANGED <<loud, detector, turns, turn, buffer, eof, finals, tailEnds>>
         /\ ingest' = "running" => ingest = "running"
         /\ ingest' # "failed" => ingest # "failed"
<1>1. /\ queue \in Seq(Req) /\ out \in Seq(Item) /\ emitted \in Seq(Req) /\ request \in Req
      /\ ingest \in {"running", "done", "failed"} /\ pump \in {"idle", "busy", "done"}
      /\ stream \in {"open", "returned", "raised", "closed"}
      /\ eof \in BOOLEAN /\ error \in BOOLEAN
  BY DEF Types
<1>2. Nothing \in Req
  BY EmptySeq DEF Nothing, Req
<1>3. \A item \in {Failure, EndOfStream} : Append(out, item) \in Seq(Item)
  BY <1>1, OutEnds
<1>4. \A how : Leave(how) =>
        /\ stream' = how /\ ingest' \in {"running", "done", "failed"}
        /\ pump' \in {"idle", "busy", "done"} /\ request' \in Req
        /\ ingest' # "running" /\ (ingest' # "failed" => ingest # "failed")
  BY <1>1, <1>2 DEF Leave
<1>5. CASE SourceFails
  <2>1. /\ IngestFails /\ UNCHANGED <<loud, detector, turns, turn, buffer, eof, tailEnds>>
        /\ UNCHANGED <<pump, request, stream, emitted>>
    BY <1>5 DEF SourceFails, cutting, pumping, history
  <2>2. /\ ingest' = "failed" /\ error' = TRUE /\ out' \in Seq(Item)
        /\ queue' = queue /\ finals' = finals
    BY <2>1, IngestFailsTypes
  <2> QED
    BY <2>1, <2>2 DEF Types
<1>6. CASE PumpTakes
  <2>1. Head(queue) \in Req /\ Tail(queue) \in Seq(Req)
    BY <1>1, <1>6, HeadTailProperties DEF PumpTakes
  <2> QED
    BY <1>6, <2>1 DEF PumpTakes, Types, cutting, history
<1>7. CASE PumpEnds
  BY <1>3, <1>7 DEF PumpEnds, Types, cutting, dispatch, history
<1>8. CASE Receive
  <2>1. Tail(out) \in Seq(Item) /\ Head(out) \in Item
    BY <1>1, <1>8, OutTaken DEF Receive
  <2>2. /\ out' = Tail(out)
        /\ UNCHANGED <<loud, detector, turns, turn, buffer, queue, eof, error, finals, tailEnds>>
        /\ \/ /\ Head(out).kind = "tokens" /\ emitted' = Append(emitted, Head(out).hyp)
              /\ UNCHANGED <<stream, ingest, pump, request>>
           \/ (Leave("raised") \/ Leave("returned")) /\ UNCHANGED emitted
    BY <1>8 DEF Receive, cutting, dispatch, pumping
  <2>3. CASE /\ Head(out).kind = "tokens" /\ emitted' = Append(emitted, Head(out).hyp)
             /\ UNCHANGED <<stream, ingest, pump, request>>
    <3>1. Head(out).hyp \in Req
      BY <2>1, <2>3 DEF Item, Failure, EndOfStream
    <3>2. emitted' \in Seq(Req)
      BY <1>1, <2>3, <3>1, AppendProperties
    <3> QED
      BY <2>1, <2>2, <2>3, <3>2 DEF Types
  <2>4. CASE (Leave("raised") \/ Leave("returned")) /\ UNCHANGED emitted
    BY <1>4, <2>1, <2>2, <2>4 DEF Types
  <2> QED
    BY <2>2, <2>3, <2>4
<1>9. CASE Close
  <2>1. /\ Leave("closed")
        /\ UNCHANGED <<loud, detector, turns, turn, buffer, queue, eof, error, finals, tailEnds>>
        /\ UNCHANGED <<out, emitted>>
    BY <1>9 DEF Close, cutting, dispatch, history
  <2> QED
    BY <1>4, <2>1 DEF Types
<1>10. ASSUME NEW answer \in {"tokens", "nothing", "error"}, WorkerAnswers(answer)
       PROVE  /\ Types' /\ UNCHANGED <<loud, detector, turns, turn, buffer, eof, finals, tailEnds>>
              /\ ingest' = ingest
  <2>1. Append(out, [kind |-> "tokens", hyp |-> request]) \in Seq(Item)
    BY <1>1, OutDecodes
  <2>2. out' \in Seq(Item)
    BY <1>1, <1>3, <1>10, <2>1 DEF WorkerAnswers
  <2> QED
    BY <1>2, <1>10, <2>2 DEF WorkerAnswers, Types, cutting, dispatch, history
<1> QED
  BY <1>5, <1>6, <1>7, <1>8, <1>9, <1>10 DEF Others

LEMMA OthersCut ==
  ASSUME Types, Others, CutInv
  PROVE  CutInv'
<1>1. /\ UNCHANGED <<loud, detector, turns, turn, buffer, eof, finals, tailEnds>>
      /\ ingest' = "running" => ingest = "running"
      /\ ingest' # "failed" => ingest # "failed"
  BY OthersTypes
<1>2. FinalsInv'
  BY <1>1 DEF CutInv, FinalsInv
<1>3. OpenInv => OpenInv'
  BY <1>1 DEF OpenInv
<1>4. TurnInv'
  BY <1>1, <1>3 DEF CutInv, TurnInv
<1>5. SpeechInv'
  BY <1>1 DEF CutInv, SpeechInv
<1> QED
  BY <1>2, <1>4, <1>5 DEF CutInv

---------------------------------------------------------------------------
(* The flow of hypotheses. *)

LEMMA FlowTypes ==
  ASSUME Types
  PROVE  Ahead \cup Elems(queue) \subseteq Req
<1>1. /\ queue \in Seq(Req) /\ out \in Seq(Item) /\ emitted \in Seq(Req) /\ request \in Req
  BY DEF Types
<1>2. Elems(emitted) \subseteq Req /\ Elems(queue) \subseteq Req
  BY <1>1, ElementOfSeq DEF Elems
<1>3. Hyps(out) \subseteq Req
  <2> SUFFICES ASSUME NEW i \in Tokens(out) PROVE out[i].hyp \in Req
    BY DEF Hyps
  <2>1. i \in 1..Len(out) /\ out[i].kind = "tokens"
    BY DEF Tokens
  <2>2. out[i] \in Item
    BY <1>1, <2>1, ElementOfSeq
  <2> QED
    BY <2>1, <2>2 DEF Item, Failure, EndOfStream
<1>4. InHand \subseteq Req
  BY <1>1 DEF InHand
<1> QED
  BY <1>2, <1>3, <1>4 DEF Ahead

(* What is submitted next comes after all that lies behind.                *)
LEMMA PastComesBefore ==
  ASSUME turns \in Nat, turn \in Nat, buffer \in Seq(Nat),
         NEW e \in Req, Past(e), NEW f \in BOOLEAN, NEW q \in Seq(Nat)
  PROVE  /\ turn = turns /\ IsPrefix(buffer, q) => Before(e, Request(turn, f, q))
         /\ Before(e, Request(turns + 1, f, q))
<1>1. e.turn \in Nat /\ e.final \in BOOLEAN /\ e.frames \in Seq(Nat)
  BY DEF Req
<1>2. /\ 1 <= e.turn /\ e.turn <= turns
      /\ e.turn = turn => ~e.final /\ IsPrefix(e.frames, buffer)
  BY DEF Past
<1>3. ASSUME turn = turns, IsPrefix(buffer, q) PROVE Before(e, Request(turn, f, q))
  <2>1. Request(turn, f, q).turn = turn /\ Request(turn, f, q).frames = q
    BY RequestTypes
  <2>2. CASE e.turn < turn
    BY <2>1, <2>2 DEF Before
  <2>3. CASE e.turn = turn
    <3>1. ~e.final /\ IsPrefix(e.frames, q)
      BY <1>1, <1>2, <1>3, <2>3, PrefixProperties
    <3> QED
      BY <2>1, <2>3, <3>1 DEF Before
  <2> QED
    BY <1>1, <1>2, <1>3, <2>2, <2>3
<1>4. Before(e, Request(turns + 1, f, q))
  <2>1. turns + 1 \in Nat
    OBVIOUS
  <2>2. Request(turns + 1, f, q).turn = turns + 1
    BY <2>1, RequestTypes
  <2>3. e.turn < turns + 1
    BY <1>1, <1>2
  <2> QED
    BY <2>2, <2>3 DEF Before
<1> QED
  BY <1>3, <1>4

LEMMA FramePast ==
  ASSUME Types, Types', OpenInv, NEW a, ActionOk(a), TurnChange(a), NEW e \in Req, Past(e)
  PROVE  /\ Past(e)'
         /\ a.due => Before(e, Request(turn', FALSE, buffer'))
         /\ a.ends => Before(e, Request(turn, TRUE, buffer))
<1>1. /\ turns \in Nat /\ turn \in Nat /\ buffer \in Seq(Nat) /\ buffer' \in Seq(Nat)
      /\ a.ends \in BOOLEAN /\ a.due \in BOOLEAN /\ a.frames \in Seq(Nat)
      /\ detector.inTurn \in BOOLEAN
  BY TypesSay DEF Types, ActionOk
<1>2. e.turn \in Nat /\ e.final \in BOOLEAN /\ e.frames \in Seq(Nat)
  BY DEF Req
<1>3. /\ 1 <= e.turn /\ e.turn <= turns
      /\ e.turn = turn => ~e.final /\ IsPrefix(e.frames, buffer)
  BY DEF Past
<1>4. detector.inTurn => turn = turns
  BY DEF OpenInv
<1>5. a.ends => Before(e, Request(turn, TRUE, buffer))
  <2>1. a.ends => turn = turns
    BY <1>1, <1>4 DEF TurnChange
  <2>2. IsPrefix(buffer, buffer)
    BY <1>1, PrefixProperties
  <2> QED
    BY <1>1, <2>1, <2>2, PastComesBefore
<1>6. CASE turns' = turns + 1 /\ turn' = turns + 1
  <2>1. 1 <= e.turn /\ e.turn <= turns' /\ e.turn # turn'
    BY <1>1, <1>2, <1>3, <1>6
  <2>2. Before(e, Request(turn', FALSE, buffer'))
    BY <1>1, <1>6, PastComesBefore
  <2> QED
    BY <1>5, <2>1, <2>2 DEF Past
<1>7. CASE turns' = turns /\ turn' = 0 /\ a.due = FALSE
  <2>1. 1 <= e.turn /\ e.turn <= turns' /\ e.turn # turn'
    BY <1>2, <1>3, <1>7
  <2> QED
    BY <1>5, <1>7, <2>1 DEF Past
<1>8. CASE /\ turns' = turns /\ turn' = turn /\ a.ends = FALSE /\ detector.inTurn
           /\ buffer' = buffer \o a.frames
  <2>1. IsPrefix(buffer, buffer')
    BY <1>1, <1>8, PrefixProperties
  <2>2. e.turn = turn => ~e.final /\ IsPrefix(e.frames, buffer')
    BY <1>1, <1>2, <1>3, <2>1, PrefixProperties
  <2>3. Before(e, Request(turn', FALSE, buffer'))
    BY <1>1, <1>4, <1>8, <2>1, PastComesBefore
  <2> QED
    BY <1>3, <1>5, <1>8, <2>2, <2>3 DEF Past
<1> QED
  BY <1>6, <1>7, <1>8 DEF TurnChange

(* A final that is submitted is past too, as is the partial.               *)
LEMMA FrameSubmits ==
  ASSUME Types, Types', OpenInv, NEW a, ActionOk(a), TurnChange(a)
  PROVE  \E f, r \in Req :
           /\ f = Request(turn, TRUE, buffer) /\ f.turn = turn /\ f.final
           /\ r = Request(turn', FALSE, buffer') /\ r.turn = turn' /\ ~r.final
           /\ a.ends => Past(f)'
           /\ a.due => Past(r)' /\ (a.ends => Before(f, r))
<1>1. /\ turns \in Nat /\ turn \in Nat /\ buffer \in Seq(Nat) /\ turn <= turns
      /\ turns' \in Nat /\ turn' \in Nat /\ buffer' \in Seq(Nat) /\ turn' <= turns'
      /\ a.ends \in BOOLEAN /\ a.due \in BOOLEAN /\ detector.inTurn \in BOOLEAN
  BY TypesSay DEF Types, ActionOk
<1>2. detector.inTurn => turn = turns /\ turns >= 1
  BY DEF OpenInv
<1>3. PICK f \in Req : f = Request(turn, TRUE, buffer) /\ f.turn = turn /\ f.final
  BY <1>1, RequestSays, Zenon
<1>4. PICK r \in Req :
        /\ r = Request(turn', FALSE, buffer') /\ r.turn = turn' /\ ~r.final
        /\ r.frames = buffer'
  BY <1>1, RequestSays, Zenon
<1>5. IsPrefix(buffer', buffer')
  BY <1>1, PrefixProperties
<1>6. turn' >= 1 => Past(r)'
  BY <1>1, <1>4, <1>5 DEF Past
<1>7. ASSUME a.ends, turn' # turn, turns' >= turns PROVE Past(f)'
  <2>1. turn = turns /\ turns >= 1
    BY <1>1, <1>2, <1>7 DEF TurnChange
  <2>2. 1 <= f.turn /\ f.turn <= turns' /\ f.turn # turn'
    BY <1>1, <1>3, <1>7, <2>1
  <2> QED
    BY <2>2 DEF Past
<1>8. CASE turns' = turns + 1 /\ turn' = turns + 1
  <2>1. turn' >= 1 /\ turn' # turn /\ turns' >= turns /\ turn < turn'
    BY <1>1, <1>8
  <2>2. Before(f, r)
    BY <1>3, <1>4, <2>1 DEF Before
  <2>3. Past(r)' /\ (a.ends => Past(f)')
    BY <1>6, <1>7, <2>1
  <2> QED
    BY <1>3, <1>4, <2>2, <2>3
<1>9. CASE turns' = turns /\ turn' = 0 /\ a.due = FALSE /\ a.ends = detector.inTurn
  <2>1. a.ends => turn' # turn /\ turns' >= turns
    BY <1>1, <1>2, <1>9
  <2>2. a.ends => Past(f)'
    BY <1>7, <2>1
  <2> QED
    BY <1>3, <1>4, <1>9, <2>2
<1>10. CASE turns' = turns /\ turn' = turn /\ a.ends = FALSE /\ detector.inTurn
  <2>1. Past(r)'
    BY <1>2, <1>6, <1>10
  <2> QED
    BY <1>3, <1>4, <1>10, <2>1
<1> QED
  BY <1>8, <1>9, <1>10 DEF TurnChange

(* The ingest task leaves what is downstream alone, but for a failure.     *)
LEMMA DownstreamKeeps ==
  ASSUME Types, FlowInv, UNCHANGED <<pump, request, emitted>>, out' = out \/ IngestFails
  PROVE  DownstreamInv' /\ Ahead' = Ahead
<1>1. Hyps(out') = Hyps(out) /\ (TokensInOrder(out) => TokensInOrder(out'))
  BY IngestFailsTypes
<1>2. InHand' = InHand
  BY DEF InHand
<1> QED
  BY <1>1, <1>2 DEF FlowInv, DownstreamInv, Ahead

LEMMA IngestFrameFlow ==
  ASSUME Types, Types', CutInv, QueueInv, FlowInv, NEW x \in BOOLEAN, IngestFrame(x)
  PROVE  QueueInv' /\ FlowInv'
<1>1. PICK a :
        /\ ingest = "running" /\ OpenInv /\ UNCHANGED <<pump, request, emitted>>
        /\ ActionOk(a) /\ TurnChange(a) /\ Submission(a)
  BY IngestFrameSays
<1> PICK S : S = Ahead \cup Elems(queue)
  OBVIOUS
<1>2. /\ S \subseteq Req /\ \A e \in S : Past(e)
      /\ QueueOk(queue) /\ InOrder(queue) /\ AllBefore(Ahead, Elems(queue))
      /\ \A i \in 1..Len(queue) : ~queue[i].final => queue[i].turn = turn
      /\ queue \in Seq(Req) /\ queue' \in Seq(Req)
      /\ a.ends \in BOOLEAN /\ a.due \in BOOLEAN /\ turn \in Nat /\ buffer \in Seq(Nat)
      /\ turn' \in Nat /\ buffer' \in Seq(Nat)
  BY <1>1, FlowTypes DEF FlowInv, QueueInv, Types, ActionOk
<1>3. PICK f \in Req, r \in Req :
        /\ f = Request(turn, TRUE, buffer) /\ f.turn = turn /\ f.final
        /\ r = Request(turn', FALSE, buffer') /\ r.turn = turn' /\ ~r.final
        /\ a.ends => Past(f)'
        /\ a.due => Past(r)' /\ (a.ends => Before(f, r))
  BY <1>1, FrameSubmits
<1>5. \A e \in S : /\ Past(e)' /\ (a.due => Before(e, r)) /\ (a.ends => Before(e, f))
  BY <1>1, <1>2, <1>3, FramePast
<1>7. CASE a.ends /\ Overrun(queue) /\ IngestFails
  <2>1. queue' = queue /\ ingest' = "failed"
    BY <1>7 DEF IngestFails
  <2>2. DownstreamInv' /\ Ahead' = Ahead
    BY <1>1, <1>7, DownstreamKeeps
  <2>3. QueueInv'
    BY <1>2, <2>1 DEF QueueInv
  <2> QED
    BY <1>2, <2>1, <2>2, <2>3 DEF FlowInv
<1>8. ASSUME ~(a.ends /\ Overrun(queue)), UNCHANGED <<ingest, error, out>>,
             NEW q, q = IF a.ends THEN FinalPushed(queue, f) ELSE queue,
             queue' = IF a.due THEN PartialPushed(q, r) ELSE q
      PROVE  QueueInv' /\ FlowInv'
  <2>1. DownstreamInv' /\ Ahead' = Ahead
    BY <1>1, <1>8, DownstreamKeeps
  \* once the final is submitted
  <2>2. /\ q \in Seq(Req) /\ QueueOk(q) /\ InOrder(q) /\ AllBefore(Ahead, Elems(q))
        /\ \A e \in Ahead \cup Elems(q) : Past(e)' /\ (a.due => Before(e, r))
        /\ a.due \/ \A i \in 1..Len(q) : ~q[i].final => q[i].turn = turn'
    <3>1. CASE a.ends
      <4>1. q = FinalPushed(queue, f) /\ ~Overrun(queue)
        BY <1>8, <3>1
      <4>2. Pushed(queue, f, q)
        BY <1>2, <4>1, PushSays
      <4>3. QueueOk(q) /\ \A i \in 1..Len(q) : q[i].final
        BY <1>2, <1>3, <4>1, FinalCounts
      <4>4. /\ InOrder(q) /\ AllBefore(Ahead, Elems(q))
            /\ Elems(q) \subseteq Elems(queue) \cup {f}
        <5>1. \A e \in Ahead \cup Elems(queue) : Before(e, f)
          BY <1>5, <3>1
        <5> QED
          BY <1>2, <4>2, <5>1, PushFlow
      <4>5. \A e \in Ahead \cup Elems(q) : Past(e)' /\ (a.due => Before(e, r))
        BY <1>5, <1>3, <3>1, <4>4
      <4> QED
        BY <4>2, <4>3, <4>4, <4>5 DEF Pushed
    <3>2. CASE ~a.ends
      <4>1. q = queue
        BY <1>8, <3>2
      <4>2. a.due \/ \A i \in 1..Len(q) : ~q[i].final => q[i].turn = turn'
        <5>1. CASE turn' = turn
          BY <1>2, <4>1, <5>1
        <5>2. CASE turn' # turn
          <6>1. turn = 0
            <7>1. ~detector.inTurn
              BY <1>1, <3>2, <5>2, TypesSay DEF TurnChange
            <7> QED
              BY <1>1, <7>1 DEF OpenInv
          <6>2. \A i \in 1..Len(queue) : 1 <= queue[i].turn
            <7>1. \A i \in 1..Len(queue) : queue[i] \in S
              BY DEF Elems
            <7> QED
              BY <1>2, <7>1 DEF Past
          <6> QED
            BY <1>2, <4>1, <6>1, <6>2
        <5> QED
          BY <5>1, <5>2
      <4> QED
        BY <1>2, <1>5, <4>1, <4>2
    <3> QED
      BY <1>2, <3>1, <3>2
  \* and then the partial
  <2>3. CASE a.due
    <3>1. queue' = PartialPushed(q, r)
      BY <1>8, <2>3
    <3>2. Pushed(q, r, queue')
      BY <2>2, <3>1, PushSays
    <3>3. QueueOk(queue') /\ \A i \in 1..Len(queue') : ~queue'[i].final => queue'[i] = r
      BY <1>3, <2>2, <3>1, PartialCounts
    <3>4. /\ InOrder(queue') /\ AllBefore(Ahead, Elems(queue'))
          /\ Elems(queue') \subseteq Elems(q) \cup {r}
      BY <2>2, <2>3, <3>2, PushFlow
    <3>5. \A e \in Ahead \cup Elems(queue') : Past(e)'
      BY <1>3, <2>2, <2>3, <3>4
    <3>6. QueueInv'
      BY <1>3, <3>3 DEF QueueInv
    <3> QED
      BY <2>1, <3>4, <3>5, <3>6 DEF FlowInv
  <2>4. CASE ~a.due
    <3>1. queue' = q
      BY <1>8, <2>4
    <3>2. QueueInv'
      BY <2>2, <2>4, <3>1 DEF QueueInv
    <3> QED
      BY <2>1, <2>2, <3>1, <3>2 DEF FlowInv
  <2> QED
    BY <1>2, <2>3, <2>4
<1> QED
  <2>1. CASE a.ends /\ Overrun(queue) /\ IngestFails
    BY <1>7, <2>1
  <2>2. CASE /\ ~(a.ends /\ Overrun(queue)) /\ UNCHANGED <<ingest, error, out>>
             /\ \E q :
                  /\ q = IF a.ends THEN FinalPushed(queue, Request(turn, TRUE, buffer))
                         ELSE queue
                  /\ queue' = IF a.due THEN PartialPushed(q, Request(turn', FALSE, buffer'))
                              ELSE q
    BY <1>3, <1>8, <2>2
  <2> QED
    BY <1>1, <2>1, <2>2 DEF Submission

LEMMA EndOfAudioFlow ==
  ASSUME Types, Types', CutInv, QueueInv, FlowInv,
         NEW tail \in BOOLEAN, NEW x \in BOOLEAN, EndOfAudio(tail, x)
  PROVE  QueueInv' /\ FlowInv'
<1>1. /\ ingest = "running" /\ OpenInv /\ UNCHANGED <<turn, pump, request, emitted>>
      /\ \E frames \in Seq(Nat) : buffer' = buffer \o frames
      /\ \/ IngestFails
         \/ /\ ingest' = "done" /\ UNCHANGED <<error, out>>
            /\ \/ UNCHANGED <<queue, finals>>
               \/ /\ detector.inTurn /\ ~Overrun(queue)
                  /\ queue' = FinalPushed(queue, Request(turn, TRUE, buffer'))
  BY EndOfAudioSays
<1>2. DownstreamInv' /\ Ahead' = Ahead
  BY <1>1, DownstreamKeeps
<1>3. ingest' # "running"
  BY <1>1 DEF IngestFails
<1>4. /\ QueueOk(queue) /\ InOrder(queue) /\ AllBefore(Ahead, Elems(queue))
      /\ \A i \in 1..Len(queue) : ~queue[i].final => queue[i].turn = turn
      /\ \A e \in Ahead \cup Elems(queue) : e \in Req /\ Past(e)
      /\ queue \in Seq(Req) /\ turn \in Nat /\ turns \in Nat
      /\ buffer \in Seq(Nat) /\ buffer' \in Seq(Nat)
  BY <1>1, FlowTypes DEF FlowInv, QueueInv, Types
<1>5. CASE queue' = queue
  BY <1>2, <1>3, <1>4, <1>5 DEF FlowInv, QueueInv
<1>6. CASE /\ detector.inTurn /\ ~Overrun(queue)
           /\ queue' = FinalPushed(queue, Request(turn, TRUE, buffer'))
  <2>1. PICK f \in Req : f = Request(turn, TRUE, buffer') /\ f.turn = turn /\ f.final
    <3>1. turn \in Nat /\ buffer' \in Seq(Nat)
      BY <1>4
    <3> QED
      BY <3>1, RequestSays, ZenonT(60)
  <2>2. QueueOk(queue')
    BY <1>4, <1>6, <2>1, FinalCounts
  <2>3. turn = turns /\ IsPrefix(buffer, buffer')
    <3>1. turn = turns
      BY <1>1, <1>6 DEF OpenInv
    <3>2. IsPrefix(buffer, buffer')
      BY <1>1, <1>4, PrefixProperties
    <3> QED
      BY <3>1, <3>2
  <2>4. \A e \in Ahead \cup Elems(queue) : Before(e, f)
    BY <1>4, <2>1, <2>3, PastComesBefore
  <2>5. Pushed(queue, f, queue')
    BY <1>4, <1>6, <2>1, PushSays
  <2>6. InOrder(queue') /\ AllBefore(Ahead, Elems(queue'))
    BY <1>4, <2>4, <2>5, PushFlow
  <2> QED
    BY <1>2, <1>3, <2>2, <2>6 DEF FlowInv, QueueInv
<1> QED
  BY <1>1, <1>5, <1>6 DEF IngestFails

(* Fewer hypotheses are in order too.                                      *)
LEMMA FewerBefore ==
  ASSUME NEW S, NEW T, NEW U, NEW V, AllBefore(S, T), U \subseteq S, V \subseteq T
  PROVE  AllBefore(U, V)
BY DEF AllBefore

LEMMA OthersFlow ==
  ASSUME Types, Others, QueueInv, FlowInv
  PROVE  QueueInv' /\ FlowInv'
<1>1. /\ UNCHANGED <<turns, turn, buffer>>
      /\ ingest' = "running" => ingest = "running"
      /\ Types'
  BY OthersTypes
<1>2. /\ queue \in Seq(Req) /\ out \in Seq(Item) /\ emitted \in Seq(Req) /\ request \in Req
  BY DEF Types
<1>3. /\ InOrder(emitted) /\ TokensInOrder(out)
      /\ AllBefore(Elems(emitted), Hyps(out) \cup InHand) /\ AllBefore(Hyps(out), InHand)
      /\ InOrder(queue) /\ AllBefore(Ahead, Elems(queue))
      /\ ingest = "running" => \A e \in Ahead \cup Elems(queue) : Past(e)
  BY DEF FlowInv, DownstreamInv
\* what remains to be shown of the new state
<1>4. ASSUME DownstreamInv', queue' = queue, Ahead' \subseteq Ahead
      PROVE  QueueInv' /\ FlowInv'
  <2>1. AllBefore(Ahead', Elems(queue'))
    BY <1>3, <1>4, FewerBefore
  <2>2. ingest' = "running" => \A e \in Ahead' \cup Elems(queue') : Past(e)'
    BY <1>1, <1>3, <1>4 DEF Past
  <2> QED
    BY <1>1, <1>3, <1>4, <2>1, <2>2 DEF QueueInv, FlowInv
<1>5. ASSUME UNCHANGED <<emitted, queue>>, InHand' \subseteq InHand, Hyps(out') = Hyps(out),
             TokensInOrder(out')
      PROVE  QueueInv' /\ FlowInv'
  <2>1. /\ AllBefore(Elems(emitted'), Hyps(out') \cup InHand')
        /\ AllBefore(Hyps(out'), InHand')
    BY <1>3, <1>5, FewerBefore
  <2>2. DownstreamInv'
    BY <1>3, <1>5, <2>1 DEF DownstreamInv
  <2>3. Ahead' \subseteq Ahead
    BY <1>5 DEF Ahead
  <2> QED
    BY <1>4, <1>5, <2>2, <2>3
<1>6. CASE SourceFails
  <2>1. IngestFails /\ UNCHANGED <<emitted, pump, request>>
    BY <1>6 DEF SourceFails, pumping, history
  <2>2. queue' = queue /\ Hyps(out') = Hyps(out) /\ TokensInOrder(out')
    BY <1>3, <2>1, IngestFailsTypes
  <2>3. InHand' = InHand
    BY <2>1 DEF InHand
  <2> QED
    BY <1>5, <2>1, <2>2, <2>3
<1>7. CASE PumpEnds
  <2>1. /\ UNCHANGED <<emitted, queue>> /\ pump' = "done"
        /\ out' = Append(out, Failure) \/ out' = Append(out, EndOfStream)
    BY <1>7 DEF PumpEnds, dispatch, history
  <2>2. Hyps(out') = Hyps(out) /\ TokensInOrder(out')
    BY <1>2, <1>3, <2>1, OutEnds
  <2>3. InHand' \subseteq InHand
    BY <2>1 DEF InHand
  <2> QED
    BY <1>5, <2>1, <2>2, <2>3
<1>8. \A how : Leave(how) => InHand' \subseteq InHand
  BY DEF Leave, InHand
<1>9. CASE Close
  <2>1. Leave("closed") /\ UNCHANGED <<emitted, queue, out>>
    BY <1>9 DEF Close, dispatch, history
  <2> QED
    BY <1>3, <1>5, <1>8, <2>1
<1>10. CASE PumpTakes
  <2>1. /\ pump = "idle" /\ queue # <<>> /\ pump' = "busy" /\ request' = Head(queue)
        /\ queue' = Tail(queue) /\ UNCHANGED <<emitted, out>>
    BY <1>10 DEF PumpTakes, history
  <2>2. QueueOk(queue') /\ Elems(queue') \subseteq Elems(queue)
    BY <1>2, <2>1, TailCounts DEF QueueInv
  <2>3. /\ Len(queue') = Len(queue) - 1 /\ \A i \in 1..Len(queue') : queue'[i] = queue[i + 1]
        /\ Len(queue) \in Nat /\ Len(queue) # 0 /\ request' = queue[1]
    BY <1>2, <2>1, HeadTailProperties, EmptySeq
  <2>4. /\ \A i \in 1..Len(queue') : i + 1 \in 1..Len(queue) /\ 1 < i + 1
        /\ 1 \in 1..Len(queue)
    BY <2>3
  <2>5. InHand = {} /\ InHand' = {request'} /\ request' \in Elems(queue)
    BY <2>1, <2>3, <2>4 DEF InHand, Elems
  <2>6. InOrder(queue')
    <3> SUFFICES ASSUME NEW i \in 1..Len(queue'), NEW j \in 1..Len(queue'), i < j
                 PROVE  Before(queue'[i], queue'[j])
      BY DEF InOrder
    <3>1. i + 1 < j + 1
      BY <2>3
    <3> QED
      BY <1>3, <2>3, <2>4, <3>1 DEF InOrder
  <2>7. AllBefore(InHand', Elems(queue'))
    <3> SUFFICES ASSUME NEW i \in 1..Len(queue') PROVE Before(queue[1], queue'[i])
      BY <2>3, <2>5 DEF AllBefore, Elems
    <3> QED
      BY <1>3, <2>3, <2>4 DEF InOrder
  <2>8. Ahead = Elems(emitted) \cup Hyps(out) /\ Ahead' = Ahead \cup {request'}
    BY <2>1, <2>5 DEF Ahead
  <2>9. AllBefore(Ahead', Elems(queue'))
    BY <1>3, <2>2, <2>5, <2>7, <2>8 DEF AllBefore
  <2>10. /\ AllBefore(Elems(emitted'), Hyps(out') \cup InHand')
         /\ AllBefore(Hyps(out'), InHand')
    BY <1>3, <2>1, <2>5, <2>8 DEF AllBefore
  <2>11. ingest' = "running" => \A e \in Ahead' \cup Elems(queue') : Past(e)'
    BY <1>1, <1>3, <2>2, <2>5, <2>8 DEF Past
  <2>12. ingest' = "running" =>
           \A i \in 1..Len(queue') : ~queue'[i].final => queue'[i].turn = turn'
    BY <1>1, <2>3, <2>4 DEF QueueInv
  <2> QED
    BY <1>3, <2>1, <2>2, <2>6, <2>9, <2>10, <2>11, <2>12 DEF QueueInv, FlowInv, DownstreamInv
<1>11. CASE Receive
  <2>1. /\ out # <<>> /\ out' = Tail(out) /\ queue' = queue
        /\ \/ /\ Head(out).kind = "tokens" /\ emitted' = Append(emitted, Head(out).hyp)
              /\ UNCHANGED <<pump, request>>
           \/ (Leave("raised") \/ Leave("returned")) /\ UNCHANGED emitted
    BY <1>11 DEF Receive, dispatch, pumping
  <2>2. /\ Hyps(out') \subseteq Hyps(out) /\ TokensInOrder(out') /\ Head(out) \in Item
        /\ Head(out).kind = "tokens" =>
             /\ Head(out).hyp \in Hyps(out)
             /\ \A b \in Hyps(out') : Before(Head(out).hyp, b)
    BY <1>2, <1>3, <2>1, OutTaken
  <2>3. CASE /\ Head(out).kind = "tokens" /\ emitted' = Append(emitted, Head(out).hyp)
             /\ UNCHANGED <<pump, request>>
    <3> PICK h : h = Head(out).hyp
      OBVIOUS
    <3>1. /\ h \in Hyps(out) /\ InHand' = InHand /\ h \in Req
          /\ \A b \in Hyps(out') : Before(h, b)
      BY <2>2, <2>3, FlowTypes DEF InHand, Ahead
    <3>2. /\ Len(emitted) \in Nat /\ Len(emitted') = Len(emitted) + 1
          /\ emitted'[Len(emitted) + 1] = h
          /\ \A i \in 1..Len(emitted) : emitted'[i] = emitted[i]
      BY <1>2, <2>3, <3>1, AppendProperties
    <3>3. \A i \in 1..Len(emitted') : i \in 1..Len(emitted) \/ i = Len(emitted) + 1
      BY <3>2
    <3>4. Elems(emitted') \subseteq Elems(emitted) \cup {h}
      BY <3>2, <3>3 DEF Elems
    <3>5. InOrder(emitted')
      <4> SUFFICES ASSUME NEW i \in 1..Len(emitted'), NEW j \in 1..Len(emitted'), i < j
                   PROVE  Before(emitted'[i], emitted'[j])
        BY DEF InOrder
      <4>1. i \in 1..Len(emitted)
        BY <3>2
      <4>2. CASE j \in 1..Len(emitted)
        BY <1>3, <3>2, <4>1, <4>2 DEF InOrder
      <4>3. CASE j = Len(emitted) + 1
        <5>1. emitted[i] \in Elems(emitted)
          BY <4>1 DEF Elems
        <5> QED
          BY <1>3, <3>1, <3>2, <4>1, <4>3, <5>1 DEF AllBefore
      <4> QED
        BY <3>3, <4>2, <4>3
    <3>6. /\ AllBefore(Elems(emitted'), Hyps(out') \cup InHand')
          /\ AllBefore(Hyps(out'), InHand')
      BY <1>3, <2>2, <3>1, <3>4 DEF AllBefore
    <3>7. Ahead' \subseteq Ahead
      BY <2>2, <3>1, <3>4 DEF Ahead
    <3>8. DownstreamInv'
      BY <2>2, <3>5, <3>6 DEF DownstreamInv
    <3> QED
      BY <1>4, <2>1, <3>7, <3>8
  <2>4. CASE (Leave("raised") \/ Leave("returned")) /\ UNCHANGED emitted
    <3>1. InHand' \subseteq InHand
      BY <1>8, <2>4
    <3>2. /\ AllBefore(Elems(emitted'), Hyps(out') \cup InHand')
          /\ AllBefore(Hyps(out'), InHand')
      BY <1>3, <2>2, <2>4, <3>1 DEF AllBefore
    <3>3. DownstreamInv'
      BY <1>3, <2>2, <2>4, <3>2 DEF DownstreamInv
    <3>4. Ahead' \subseteq Ahead
      BY <2>2, <2>4, <3>1 DEF Ahead
    <3> QED
      BY <1>4, <2>1, <3>3, <3>4
  <2> QED
    BY <2>1, <2>3, <2>4
<1>12. ASSUME NEW answer \in {"tokens", "nothing", "error"}, WorkerAnswers(answer)
       PROVE  QueueInv' /\ FlowInv'
  <2>1. /\ pump = "busy" /\ pump' # "busy" /\ UNCHANGED <<emitted, queue>>
        /\ \/ out' = Append(out, [kind |-> "tokens", hyp |-> request])
           \/ out' = Append(out, Failure) \/ out' = out
    BY <1>12 DEF WorkerAnswers, dispatch, history
  <2>2. InHand = {request} /\ InHand' = {}
    BY <2>1 DEF InHand
  <2>3. CASE out' = Append(out, [kind |-> "tokens", hyp |-> request])
    <3>1. \A b \in Hyps(out) : Before(b, request)
      BY <1>3, <2>2 DEF AllBefore
    <3>2. Hyps(out') = Hyps(out) \cup {request} /\ TokensInOrder(out')
      BY <1>2, <1>3, <2>3, <3>1, OutDecodes
    <3>3. Ahead' = Ahead
      BY <2>1, <2>2, <3>2 DEF Ahead
    <3>4. DownstreamInv'
      BY <1>3, <2>1, <2>2, <3>2 DEF DownstreamInv, AllBefore
    <3> QED
      BY <1>4, <2>1, <3>3, <3>4
  <2>4. CASE out' = Append(out, Failure) \/ out' = out
    <3>1. Hyps(out') = Hyps(out) /\ TokensInOrder(out')
      BY <1>2, <1>3, <2>4, OutEnds
    <3> QED
      BY <1>5, <2>1, <2>2, <3>1
  <2> QED
    BY <2>1, <2>3, <2>4
<1> QED
  BY <1>6, <1>7, <1>9, <1>10, <1>11, <1>12 DEF Others

---------------------------------------------------------------------------
(* The invariants of the run. *)

(* No speech is missing from the turns, and none is in two of them.        *)
LEMMA SpeechSaysInOneTurn ==
  ASSUME Types, CutInv
  PROVE  SpeechIsInOneTurn
<1> SUFFICES ASSUME ingest # "failed", ~tailEnds, NEW n \in Speech
             PROVE  \/ n \in ToSet(buffer)
                       /\ \A frames \in Cut : n \in frames => ToSet(buffer) = frames
                    \/ \E frames \in Cut :
                         n \in frames /\ \A others \in Cut : n \in others => others = frames
  BY DEF SpeechIsInOneTurn
<1>1. /\ finals \in Seq(Req) /\ Len(finals) \in Nat /\ DOMAIN finals = 1..Len(finals)
      /\ loud \in Seq(BOOLEAN) /\ DOMAIN loud = 1..Len(loud)
  BY LenProperties DEF Types
<1>2. n \in 1..Len(loud) /\ IsSpeech(loud, n)
  BY <1>1 DEF Speech
<1>3. Cut = {ToSet(finals[i].frames) : i \in 1..Len(finals)}
  BY <1>1 DEF Cut
<1>4. /\ n \in ToSet(buffer) \/ \E i \in 1..Len(finals) : n \in ToSet(finals[i].frames)
      /\ \A i \in 1..Len(finals) :
           \/ ToSet(buffer) = ToSet(finals[i].frames)
           \/ \A m \in ToSet(buffer) : m \notin ToSet(finals[i].frames)
  BY <1>2 DEF CutInv, SpeechInv
<1>5. CASE n \in ToSet(buffer)
  BY <1>3, <1>4, <1>5
<1>6. ASSUME NEW i \in 1..Len(finals), n \in ToSet(finals[i].frames)
      PROVE  \E frames \in Cut :
               n \in frames /\ \A others \in Cut : n \in others => others = frames
  <2>1. ASSUME NEW j \in 1..Len(finals), n \in ToSet(finals[j].frames) PROVE i = j
    <3>1. /\ LastFrame(finals[i].frames) \in Nat /\ LastFrame(finals[j].frames) \in Nat
          /\ finals[i].frames[1] \in Nat /\ finals[j].frames[1] \in Nat
          /\ n \in finals[i].frames[1]..LastFrame(finals[i].frames)
          /\ n \in finals[j].frames[1]..LastFrame(finals[j].frames)
      BY <1>6, <2>1, FinalTypes DEF CutInv
    <3>2. /\ i < j => LastFrame(finals[i].frames) < finals[j].frames[1]
          /\ j < i => LastFrame(finals[j].frames) < finals[i].frames[1]
      BY DEF CutInv, FinalsInv
    <3>3. PICK a \in Nat, b \in Nat, c \in Nat, d \in Nat :
            /\ a = finals[i].frames[1] /\ b = LastFrame(finals[i].frames)
            /\ c = finals[j].frames[1] /\ d = LastFrame(finals[j].frames)
      BY <3>1
    <3>4. n \in a..b /\ n \in c..d /\ (i < j => b < c) /\ (j < i => d < a)
      BY <3>1, <3>2, <3>3
    <3>5. ~(i < j) /\ ~(j < i)
      BY <3>4
    <3> QED
      BY <3>5
  <2> QED
    BY <1>3, <1>6, <2>1
<1> QED
  BY <1>4, <1>5, <1>6

(* Each turn submitted was cut where it should be.                         *)
LEMMA FinalsSayCutRight ==
  ASSUME Types, CutInv
  PROVE  TurnsAreCutRight
<1>1. /\ finals \in Seq(Req) /\ Len(finals) \in Nat /\ DOMAIN finals = 1..Len(finals)
      /\ loud \in Seq(BOOLEAN) /\ DOMAIN loud = 1..Len(loud) /\ Len(loud) \in Nat
  BY LenProperties DEF Types
<1> DEFINE Silent(a, b) == \A n \in a..b : n \notin Speech
<1>2. \A a, b : Silent(a, b) <=> Quiet(loud, a, b)
  BY <1>1 DEF Speech, Quiet
<1>3. ASSUME NEW i \in 1..Len(finals)
      PROVE  LET frames == finals[i].frames
                 first == Head(frames)
                 last == Last(frames)
             IN  /\ \A k \in DOMAIN frames : frames[k] = first + k - 1
                 /\ ~Silent(first, Least(first + PreRoll, last))
                 /\ \A n \in first..last :
                      (n - Pause + 1 >= first /\ n > first + PreRoll)
                        => ~Silent(n - Pause + 1, n)
                 /\ \/ Len(frames) >= MaxUtterance
                    \/ Silent(last + 2 - Pause, last + 1)
                    \/ eof /\ i = Len(finals)
  <2> HIDE DEF Silent
  <2> PICK q : q = finals[i].frames
    OBVIOUS
  <2>1. /\ Piece(loud, q) /\ (Ended(loud, q, LastFrame(q)) \/ (eof /\ i = Len(finals)))
        /\ q \in Seq(Nat)
    BY FinalTypes DEF CutInv, FinalsInv
  <2>2. /\ LastFrame(q) \in Nat /\ Len(q) \in Nat /\ Len(q) # 0 /\ q[1] \in Nat
        /\ q[1] = LastFrame(q) - Len(q) + 1
    BY <1>1, <2>1, PieceProperties
  <2>3. Head(q) = q[1] /\ Last(q) = LastFrame(q) /\ DOMAIN q = 1..Len(q)
    <3>1. Head(q) = q[1]
      BY <2>1, <2>2
    <3> QED
      BY <2>1, <3>1, LenProperties DEF Last, LastFrame
  <2> PICK l \in Nat, m \in Nat : l = LastFrame(q) /\ m = Len(q)
    BY <2>2
  <2>4. \A k \in DOMAIN q : q[k] = q[1] + k - 1
    <3>1. \A k \in 1..m : q[k] = l - m + k
      BY <2>1 DEF Piece, Stretch
    <3>2. q[1] = l - m + 1 /\ q[1] \in Int
      BY <2>2
    <3>3. \A k \in 1..m : l - m + k = (l - m + 1) + k - 1
      OBVIOUS
    <3>4. \A k \in 1..m : q[k] = q[1] + k - 1
      BY <3>1, <3>2, <3>3
    <3> QED
      BY <2>3, <3>4
  <2>5. /\ ~Quiet(loud, q[1], Least(q[1] + PreRoll, l))
        /\ \A n \in q[1]..l : (n - Pause + 1 >= q[1] /\ n > q[1] + PreRoll)
                                => ~Quiet(loud, n - Pause + 1, n)
    BY <2>1, <2>2 DEF Piece, CutRight
  <2>6. \/ Len(q) >= MaxUtterance
        \/ Quiet(loud, l + 2 - Pause, l + 1)
        \/ eof /\ i = Len(finals)
    BY <2>1 DEF Ended
  <2> QED
    BY <1>2, <2>3, <2>4, <2>5, <2>6
<1> QED
  BY <1>1, <1>2, <1>3 DEF TurnsAreCutRight

LEMMA WhisperInit ==
  ASSUME Init
  PROVE  WhisperInv
<1>1. /\ loud = <<>> /\ turns = 0 /\ turn = 0 /\ buffer = <<>>
      /\ detector = NotInTurn(VadStart)
      /\ ingest = "running"
      /\ queue = <<>> /\ eof = FALSE /\ error = FALSE
      /\ pump = "idle" /\ request = Nothing
      /\ out = <<>> /\ stream = "open"
      /\ finals = <<>> /\ emitted = <<>> /\ tailEnds = FALSE
  BY DEF Init
<1>2. \A S : <<>> \in Seq(S)
  BY EmptySeq
<1>3. Len(<<>>) = 0 /\ \A i : i \notin 1..0
  BY EmptySeq
<1>4. VadStart \in Vad /\ ~VadStart.inSpeech
  BY DEF VadStart, Vad
<1>5. /\ detector \in Detector /\ detector.inTurn = FALSE /\ detector.preRoll = <<>>
      /\ detector.vad = VadStart
  <2>1. /\ [vad |-> VadStart, preRoll |-> <<>>, inTurn |-> FALSE, length |-> 0,
            silence |-> 0, partial |-> 0] \in Detector
    BY <1>2, <1>4 DEF Detector
  <2> QED
    BY <1>1, <2>1 DEF NotInTurn
<1>6. Nothing \in Req
  BY <1>2 DEF Nothing, Req
<1>7. Types
  <2>1. /\ loud \in Seq(BOOLEAN) /\ buffer \in Seq(Nat) /\ queue \in Seq(Req)
        /\ out \in Seq(Item) /\ finals \in Seq(Req) /\ emitted \in Seq(Req)
    BY <1>1, <1>2, Zenon
  <2>2. /\ turns \in Nat /\ turns <= Len(loud) /\ turn \in Nat /\ turn <= turns
        /\ ingest = "running" /\ pump = "idle" /\ stream = "open"
    <3>1. Len(loud) = 0
      BY <1>1, <1>3, Zenon
    <3> QED
      BY <1>1, <3>1
  <2>4. eof \in BOOLEAN /\ error \in BOOLEAN /\ tailEnds \in BOOLEAN
    BY <1>1, Zenon
  <2>3. detector \in Detector /\ request \in Req
    BY <1>1, <1>5, <1>6, Zenon
  <2> QED
    BY <2>1, <2>2, <2>3, <2>4 DEF Types
<1>8. FinalsInv /\ SpeechInv
  BY <1>1, <1>3 DEF FinalsInv, SpeechInv
<1>9. TurnInv
  <2>1. VadInv(loud, detector.vad)
    BY <1>1, <1>3, <1>4, <1>5 DEF VadInv
  <2>2. OpenInv
    <3>1. Stretch(<<>>, 0) /\ Len(<<>>) <= PreRoll
      BY <1>3, EmptyStretch, PauseProperties
    <3> QED
      BY <1>1, <1>3, <1>5, <3>1 DEF OpenInv
  <2>3. CutBefore(finals, Len(loud) - Len(buffer) - Len(detector.preRoll))
    BY <1>1, <1>3 DEF CutBefore
  <2> QED
    BY <1>1, <2>1, <2>2, <2>3 DEF TurnInv
<1>10. QueueInv
  <2>1. FinalsIn(queue) = 0
    <3>1. PICK q \in Seq(Req) : q = <<>>
      BY <1>2
    <3>2. Len(q) = 0 /\ \A i : i \notin 1..(0 - 1)
      BY <1>3, <3>1
    <3>3. FinalsIn(q) = Len(q)
      BY <3>1, <3>2, FinalsCount
    <3> QED
      BY <1>1, <3>1, <3>2, <3>3
  <2>2. MaxPending \in Nat /\ \A i : i \notin 1..(0 - 1)
    BY WhisperAssumption
  <2> QED
    BY <1>1, <1>3, <2>1, <2>2 DEF QueueInv, QueueOk
<1>11. FlowInv
  <2>1. /\ Elems(queue) = {} /\ Elems(emitted) = {} /\ Tokens(out) = {}
    BY <1>1, <1>3 DEF Elems, Tokens
  <2>2. Hyps(out) = {} /\ InHand = {} /\ InOrder(queue) /\ InOrder(emitted)
    BY <1>1, <1>3, <2>1 DEF Hyps, InHand, InOrder
  <2> QED
    BY <2>1, <2>2 DEF FlowInv, DownstreamInv, TokensInOrder, AllBefore, Ahead
<1> QED
  BY <1>7, <1>8, <1>9, <1>10, <1>11 DEF WhisperInv, CutInv

LEMMA WhisperStep ==
  ASSUME WhisperInv, [Next]_vars
  PROVE  WhisperInv'
<1>1. Types /\ CutInv /\ QueueInv /\ FlowInv
  BY DEF WhisperInv
<1>2. ASSUME NEW isLoud \in BOOLEAN, IngestFrame(isLoud) PROVE WhisperInv'
  <2>1. Types'
    BY <1>1, <1>2, IngestFrameTypes
  <2>2. CutInv' /\ QueueInv' /\ FlowInv'
    BY <1>1, <1>2, <2>1, IngestFrameCut, IngestFrameFlow
  <2> QED
    BY <2>1, <2>2 DEF WhisperInv
<1>3. ASSUME NEW tail \in BOOLEAN, NEW isLoud \in BOOLEAN, EndOfAudio(tail, isLoud)
      PROVE  WhisperInv'
  <2>1. Types'
    BY <1>1, <1>3, EndOfAudioTypes
  <2>2. CutInv' /\ QueueInv' /\ FlowInv'
    BY <1>1, <1>3, <2>1, EndOfAudioCut, EndOfAudioFlow
  <2> QED
    BY <2>1, <2>2 DEF WhisperInv
<1>4. CASE Others
  BY <1>1, <1>4, OthersTypes, OthersCut, OthersFlow DEF WhisperInv
<1>5. CASE UNCHANGED vars
  <2>1. /\ UNCHANGED <<loud, detector, turns, turn, buffer, ingest, queue, eof, error>>
        /\ UNCHANGED <<pump, request, out, stream, finals, emitted, tailEnds>>
    BY <1>5 DEF vars, cutting, dispatch, pumping, history
  <2>2. Types' /\ CutInv' /\ QueueInv' /\ FlowInv'
    <3>1. Types'
      BY <1>1, <2>1 DEF Types
    <3>2. CutInv'
      BY <1>1, <2>1 DEF CutInv, FinalsInv, TurnInv, OpenInv, SpeechInv
    <3>3. QueueInv'
      BY <1>1, <2>1 DEF QueueInv
    <3>4. InHand' = InHand /\ \A e : Past(e) => Past(e)'
      BY <2>1 DEF InHand, Past
    <3>5. FlowInv'
      BY <1>1, <2>1, <3>4 DEF FlowInv, DownstreamInv, Ahead
    <3> QED
      BY <3>1, <3>2, <3>3, <3>5
  <2> QED
    BY <2>2 DEF WhisperInv
<1> QED
  BY <1>2, <1>3, <1>4, <1>5 DEF Next, Others

LEMMA WhisperSays ==
  ASSUME WhisperInv
  PROVE  TurnsAreRight /\ HypothesesAreRight
<1>1. Types /\ CutInv /\ QueueInv /\ FlowInv
  BY DEF WhisperInv
<1>2. TurnsAreRight
  BY <1>1, SpeechSaysInOneTurn, FinalsSayCutRight DEF TurnsAreRight
<1>3. TypeOK
  <2>1. turn \in 0..turns
    BY <1>1 DEF Types
  <2> QED
    BY <1>1, <2>1 DEF Types, TypeOK, QueueInv, QueueOk
<1>4. OnePartialWaits
  <2> SUFFICES ASSUME ingest = "running", NEW i \in DOMAIN queue, ~queue[i].final
               PROVE  i = Len(queue) /\ queue[i].turn = turn
    BY DEF OnePartialWaits
  <2>1. i \in 1..Len(queue) /\ Len(queue) \in Nat
    BY <1>1, LenProperties DEF Types
  <2>2. i \notin 1..(Len(queue) - 1) /\ queue[i].turn = turn
    BY <1>1, <2>1 DEF QueueInv, QueueOk
  <2> QED
    BY <2>1, <2>2
<1>5. HypothesesInOrder
  <2>1. DOMAIN emitted = 1..Len(emitted)
    BY <1>1, LenProperties DEF Types
  <2> QED
    BY <1>1, <2>1 DEF FlowInv, DownstreamInv, InOrder, Before, HypothesesInOrder
<1> QED
  BY <1>2, <1>3, <1>4, <1>5 DEF HypothesesAreRight

LEMMA WhisperInvariant == Spec => []WhisperInv
<1>1. Init => WhisperInv
  BY WhisperInit
<1>2. WhisperInv /\ [Next]_vars => WhisperInv'
  BY WhisperStep
<1> QED
  BY <1>1, <1>2, PTL DEF Spec

(***************************************************************************)
(* All speech is decoded in exactly one turn, and every turn is cut where  *)
(* it should be, for audio of any length and any thresholds (vad.py feed,  *)
(* whisper.py _ingest).                                                    *)
(***************************************************************************)
THEOREM SpeechIsCutRight == Spec => []TurnsAreRight
<1>1. WhisperInv => TurnsAreRight
  BY WhisperSays
<1> QED
  BY <1>1, WhisperInvariant, PTL

(***************************************************************************)
(* At most one partial waits, of the open turn, and what is yielded comes  *)
(* in order, however far decoding falls behind (whisper.py push_partial,   *)
(* push_final, _decode_pump).                                              *)
(***************************************************************************)
THEOREM HypothesesComeInOrder == Spec => []HypothesesAreRight
<1>1. WhisperInv => HypothesesAreRight
  BY WhisperSays
<1> QED
  BY <1>1, WhisperInvariant, PTL
=============================================================================
