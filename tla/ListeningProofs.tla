-------------------------- MODULE ListeningProofs --------------------------
(***************************************************************************)
(* From the microphone to the segments for translation: what is proved of  *)
(* Capture.tla and of Stabilizer.tla.  The two share nothing but this      *)
(* module; between them is the recogniser.                                 *)
(*                                                                         *)
(* First Capture, for frames, queues and thresholds of any number and      *)
(* size, for a microphone and for a file, and with the microphone failing  *)
(* or the recogniser leaving at any moment.  DropsAreRight follows from    *)
(* QueuesInv, which says frame by frame what each queue holds.             *)
(* OnsetsAreDebounced follows from DetectorInv, which says what the few    *)
(* numbers the detector keeps mean for the whole history of the frames it  *)
(* was fed: the detector never looks back.                                 *)
(*                                                                         *)
(* Then Stabilizer, for any words and hypotheses, any window and any cap   *)
(* of a segment.  All of its properties follow from StabilizerInv: the     *)
(* segmenter was given exactly the committed words and what it closed cuts *)
(* them into pieces without a gap.  feed() takes any number of tokens in   *)
(* one step, so that step is an induction of its own, by the least number  *)
(* of tokens after which the segmenter would be wrong.                     *)
(***************************************************************************)
EXTENDS Capture, Stabilizer, SequenceTheorems, WellFoundedInduction, TLAPS

Frame == [n : Nat \ {0}, loud : BOOLEAN, note : BOOLEAN]
Item  == Frame \cup {Sentinel}

Types ==
  /\ live \in BOOLEAN /\ source \in {"open", "ended", "failed"}
  /\ captured \in Nat /\ posted \in Seq(Frame)
  /\ micQ \in Seq(Frame) /\ Len(micQ) <= MicQueue /\ micDropped \in Nat
  /\ offered \in Seq(Nat)
  /\ queues \in [Subs -> Seq(Item)] /\ \A s \in Subs : Len(queues[s]) <= SubQueue
  /\ dropped \in [Subs -> Nat] /\ got \in [Subs -> Nat]
  /\ reader \in [Subs -> {"reading", "ended", "left"}]

(* What waits on the way from the microphone are the last frames captured. *)
MicInOrder ==
  live /\ source = "open" =>
    /\ \A i \in 1..Len(posted) : posted[i].n = captured - Len(posted) + i
    /\ \A i \in 1..Len(micQ) : micQ[i].n = captured - Len(posted) - Len(micQ) + i
    /\ captured = Len(offered) + Len(micQ) + Len(posted) + micDropped

(* The sentinel is the last item of a queue.                               *)
Closed(q) == \A i \in 1..Len(q) : q[i] = Sentinel => i = Len(q)

(* How many frames a queue holds, and that they are the newest of all.     *)
FramesIn(q) == IF q # <<>> /\ q[Len(q)] = Sentinel THEN Len(q) - 1 ELSE Len(q)

Newest(q, all) ==
  /\ FramesIn(q) <= Len(all)
  /\ \A i \in 1..FramesIn(q) : q[i].n = all[Len(all) - FramesIn(q) + i]

FansOutInOrder ==
  \A s \in Subs :
    /\ source # "ended" => \A i \in 1..Len(queues[s]) : queues[s][i] # Sentinel
    /\ source # "ended" => Len(offered) = got[s] + Len(queues[s]) + dropped[s]
    /\ Closed(queues[s]) /\ Newest(queues[s], offered)

QueuesInv == Types /\ MicInOrder /\ FansOutInOrder

---------------------------------------------------------------------------
(* The detector. *)

(* An utterance of the VAD is in progress after the last frame it saw, and *)
(* silence is how many quiet frames there were since the last loud one.    *)
VadInv ==
  LET n == Len(watched)
      vad == detector.vad
  IN  /\ vad.inSpeech <=> n > 0 /\ IsSpeech(watched, n)
      /\ vad.inSpeech =>
           /\ vad.silence < n /\ watched[n - vad.silence]
           /\ \A i \in (n - vad.silence + 1)..n : ~watched[i]

(* An armed detector has counted the speech since the last silence, and it *)
(* is not enough yet; a disarmed one has seen no silence that recently.    *)
RunInv ==
  LET n == Len(watched)
  IN  IF detector.armed
        THEN /\ detector.run < OnsetFrames /\ detector.run < n
             /\ ~IsSpeech(watched, n - detector.run)
             /\ \A i \in (n - detector.run + 1)..n : IsSpeech(watched, i)
        ELSE /\ detector.run = 0
             /\ \A i \in 1..n : i + OnsetFrames > n => IsSpeech(watched, i)

(* Frame i ends a run of speech that follows silence and is long enough.   *)
Confirms(loud, i) ==
  /\ i > OnsetFrames /\ ~IsSpeech(loud, i - OnsetFrames)
  /\ \A j \in (i - OnsetFrames + 1)..i : IsSpeech(loud, j)

DetectorTypes ==
  /\ watched \in Seq(BOOLEAN)
  /\ detector \in [vad : [inSpeech : BOOLEAN, silence : Nat], armed : BOOLEAN, run : Nat]

DetectorInv ==
  /\ DetectorTypes /\ VadInv /\ RunInv
  /\ onsets = {i \in 1..Len(watched) : Confirms(watched, i)}

CaptureInv == QueuesInv /\ DetectorInv

---------------------------------------------------------------------------
(* Lemmas about the detector. *)

(* A verdict depends on the frames up to its own only.                     *)
LEMMA SpeechKeeps ==
  ASSUME NEW loud \in Seq(BOOLEAN), NEW x \in BOOLEAN
  PROVE  /\ Append(loud, x) \in Seq(BOOLEAN) /\ Len(Append(loud, x)) = Len(loud) + 1
         /\ \A i \in 1..Len(loud) : Append(loud, x)[i] = loud[i]
         /\ \A i \in 1..Len(loud) : IsSpeech(Append(loud, x), i) <=> IsSpeech(loud, i)
         /\ IsSpeech(Append(loud, x), Len(loud) + 1)
              <=> x \/ \E j \in 1..Len(loud) : loud[j] /\ Len(loud) + 1 - j < Hangover
<1> DEFINE more == Append(loud, x)
<1>1. /\ more \in Seq(BOOLEAN) /\ Len(more) = Len(loud) + 1 /\ Len(loud) \in Nat
      /\ \A i \in 1..Len(loud) : more[i] = loud[i]
      /\ more[Len(loud) + 1] = x
  BY AppendProperties
<1> HIDE DEF more
<1>2. \A i \in 1..Len(loud) : IsSpeech(more, i) <=> IsSpeech(loud, i)
  BY <1>1, SMTT(30) DEF IsSpeech
<1>3. IsSpeech(more, Len(loud) + 1)
        <=> x \/ \E j \in 1..Len(loud) : loud[j] /\ Len(loud) + 1 - j < Hangover
  BY <1>1 DEF IsSpeech
<1> QED
  BY <1>1, <1>2, <1>3 DEF more

(* feed() of the VAD: it goes on saying what IsSpeech says.                *)
LEMMA VadStep ==
  ASSUME DetectorTypes, VadInv, NEW frame \in Frame,
         watched' = Append(watched, frame.loud),
         detector'.vad = VadAfter(detector.vad, frame)
  PROVE  VadInv'
<1> DEFINE n == Len(watched)
           vad == detector.vad
<1>1. /\ watched \in Seq(BOOLEAN) /\ n \in Nat /\ frame.loud \in BOOLEAN
      /\ vad \in [inSpeech : BOOLEAN, silence : Nat] /\ Hangover \in Nat
  BY HangoverAssumption DEF DetectorTypes, Frame
<1>2. /\ Len(watched') = n + 1
      /\ \A i \in 1..n : watched'[i] = watched[i]
      /\ watched'[n + 1] = frame.loud
      /\ IsSpeech(watched', n + 1)
           <=> frame.loud \/ \E j \in 1..n : watched[j] /\ n + 1 - j < Hangover
  BY <1>1, SpeechKeeps, AppendProperties
<1> PICK v : v = detector'.vad
  OBVIOUS
<1>3. ASSUME v.inSpeech <=> IsSpeech(watched', n + 1),
             v.inSpeech => /\ v.silence < n + 1 /\ watched'[(n + 1) - v.silence]
                           /\ \A i \in ((n + 1) - v.silence + 1)..(n + 1) : ~watched'[i]
      PROVE  VadInv'
  <2>1. n + 1 > 0
    BY <1>1
  <2> QED
    BY <1>2, <1>3, <2>1 DEF VadInv
<1>4. CASE frame.loud
  <2>1. v = [inSpeech |-> TRUE, silence |-> 0]
    BY <1>4 DEF VadAfter
  <2> QED
    BY <1>1, <1>2, <1>4, <2>1, <1>3
<1>5. CASE ~frame.loud /\ vad.inSpeech
  <2>1. v = [inSpeech |-> vad.silence + 1 < Hangover, silence |-> vad.silence + 1]
    BY <1>5 DEF VadAfter
  <2>2. /\ vad.silence \in Nat /\ vad.silence < n /\ watched[n - vad.silence]
        /\ \A i \in (n - vad.silence + 1)..n : ~watched[i]
    BY <1>1, <1>5 DEF VadInv
  <2>3. (\E j \in 1..n : watched[j] /\ n + 1 - j < Hangover) <=> vad.silence + 1 < Hangover
    <3>1. ASSUME vad.silence + 1 < Hangover
          PROVE  \E j \in 1..n : watched[j] /\ n + 1 - j < Hangover
      <4>1. n - vad.silence \in 1..n /\ n + 1 - (n - vad.silence) < Hangover
        BY <1>1, <2>2, <3>1
      <4> QED
        BY <2>2, <4>1
    <3>2. ASSUME NEW j \in 1..n, watched[j], n + 1 - j < Hangover
          PROVE  vad.silence + 1 < Hangover
      <4>1. j <= n - vad.silence
        BY <1>1, <2>2, <3>2
      <4> QED
        BY <1>1, <2>2, <3>2, <4>1
    <3> QED
      BY <3>1, <3>2
  <2>4. \A i \in ((n + 1) - (vad.silence + 1) + 1)..(n + 1) : ~watched'[i]
    BY <1>1, <1>2, <1>5, <2>2
  <2>5. /\ vad.silence + 1 < n + 1 /\ (n + 1) - (vad.silence + 1) = n - vad.silence
        /\ watched'[n - vad.silence]
    <3>1. n - vad.silence \in 1..n
      BY <1>1, <2>2
    <3> QED
      BY <1>1, <1>2, <2>2, <3>1, SMTT(30)
  <2>6. v.inSpeech <=> IsSpeech(watched', n + 1)
    <3>1. v.inSpeech <=> vad.silence + 1 < Hangover
      <4>1. CASE vad.silence + 1 < Hangover
        <5>1. v = [inSpeech |-> TRUE, silence |-> vad.silence + 1]
          BY <1>5, <4>1 DEF VadAfter
        <5> QED
          BY <4>1, <5>1
      <4>2. CASE ~(vad.silence + 1 < Hangover)
        <5>0. (vad.silence + 1 < Hangover) = FALSE
          BY <4>2
        <5>1. v = [inSpeech |-> FALSE, silence |-> vad.silence + 1]
          BY <2>1, <5>0, Zenon
        <5> QED
          BY <4>2, <5>1
      <4> QED
        BY <4>1, <4>2
    <3>2. IsSpeech(watched', n + 1) <=> \E j \in 1..n : watched[j] /\ n + 1 - j < Hangover
      BY <1>2, <1>5
    <3> QED
      BY <2>3, <3>1, <3>2
  <2>7. v.silence = vad.silence + 1
    BY <2>1
  <2> QED
    BY <1>3, <2>4, <2>5, <2>6, <2>7
<1>6. CASE ~frame.loud /\ ~vad.inSpeech
  <2>1. v = vad
    BY <1>6 DEF VadAfter
  <2>2. ~\E j \in 1..n : watched[j] /\ n + 1 - j < Hangover
    <3> SUFFICES ASSUME NEW j \in 1..n, watched[j], n + 1 - j < Hangover PROVE FALSE
      OBVIOUS
    <3>1. n > 0 /\ IsSpeech(watched, n)
      <4>1. n > 0 /\ n \in Nat /\ n - j < Hangover
        BY <1>1
      <4> QED
        BY <4>1 DEF IsSpeech
    <3> QED
      BY <1>6, <3>1 DEF VadInv
  <2> QED
    BY <1>1, <1>2, <1>3, <1>6, <2>1, <2>2
<1> QED
  BY <1>4, <1>5, <1>6

(* What feed() makes of a frame: silence arms the detector, speech counts  *)
(* or fires, and what is disarmed stays so.                                *)
LEMMA DetectorCases ==
  ASSUME NEW d \in [vad : [inSpeech : BOOLEAN, silence : Nat], armed : BOOLEAN, run : Nat],
         NEW frame \in Frame
  PROVE  LET heard == [d EXCEPT !.vad = VadAfter(@, frame)]
             after == DetectorAfter(d, frame)
         IN  /\ after \in [vad : [inSpeech : BOOLEAN, silence : Nat], armed : BOOLEAN, run : Nat]
             /\ after.vad = VadAfter(d.vad, frame)
             /\ ~after.vad.inSpeech => after.armed /\ after.run = 0 /\ ~Fires(heard)
             /\ after.vad.inSpeech /\ Fires(heard)
                  => d.armed /\ d.run + 1 >= OnsetFrames /\ ~after.armed /\ after.run = 0
             /\ after.vad.inSpeech /\ ~Fires(heard) /\ d.armed
                  => d.run + 1 < OnsetFrames /\ after.armed /\ after.run = d.run + 1
             /\ after.vad.inSpeech /\ ~d.armed
                  => ~Fires(heard) /\ ~after.armed /\ after.run = d.run
<1> DEFINE heard == [d EXCEPT !.vad = VadAfter(@, frame)]
           after == DetectorAfter(d, frame)
<1>1. frame.loud \in BOOLEAN /\ Hangover \in Nat /\ OnsetFrames \in Nat
  BY HangoverAssumption, CaptureAssumption DEF Frame
<1>2. VadAfter(d.vad, frame) \in [inSpeech : BOOLEAN, silence : Nat]
  BY <1>1 DEF VadAfter
<1>3. /\ heard \in [vad : [inSpeech : BOOLEAN, silence : Nat], armed : BOOLEAN, run : Nat]
      /\ heard.vad = VadAfter(d.vad, frame) /\ heard.armed = d.armed /\ heard.run = d.run
  BY <1>2
<1>4. after = IF ~heard.vad.inSpeech THEN [heard EXCEPT !.armed = TRUE, !.run = 0]
              ELSE IF Fires(heard) THEN [heard EXCEPT !.armed = FALSE, !.run = 0]
              ELSE [heard EXCEPT !.run = IF d.armed THEN @ + 1 ELSE @]
  BY DEF DetectorAfter
<1> DEFINE
  Claim == /\ after \in [vad : [inSpeech : BOOLEAN, silence : Nat], armed : BOOLEAN, run : Nat]
           /\ after.vad = heard.vad
           /\ ~after.vad.inSpeech => after.armed /\ after.run = 0 /\ ~Fires(heard)
           /\ after.vad.inSpeech /\ Fires(heard)
                => d.armed /\ d.run + 1 >= OnsetFrames /\ ~after.armed /\ after.run = 0
           /\ after.vad.inSpeech /\ ~Fires(heard) /\ d.armed
                => d.run + 1 < OnsetFrames /\ after.armed /\ after.run = d.run + 1
           /\ after.vad.inSpeech /\ ~d.armed
                => ~Fires(heard) /\ ~after.armed /\ after.run = d.run
<1> SUFFICES Claim
  BY <1>3
<1> HIDE DEF heard, after
<1>5. CASE ~heard.vad.inSpeech
  BY <1>1, <1>3, <1>4, <1>5 DEF Fires
<1>6. CASE heard.vad.inSpeech /\ Fires(heard)
  BY <1>1, <1>3, <1>4, <1>6 DEF Fires
<1>7. CASE heard.vad.inSpeech /\ ~Fires(heard)
  BY <1>1, <1>3, <1>4, <1>7 DEF Fires
<1> QED
  BY <1>5, <1>6, <1>7

(* feed() of the detector: it goes on counting what RunInv says, and fires *)
(* at the frame that confirms the run and at no other.                     *)
LEMMA FeedStep ==
  ASSUME DetectorInv, NEW frame \in Frame, Feed(frame)
  PROVE  DetectorInv'
<1> DEFINE n == Len(watched)
           heard == [detector EXCEPT !.vad = VadAfter(@, frame)]
<1> USE CaptureAssumption, HangoverAssumption
<1>1. /\ watched \in Seq(BOOLEAN) /\ n \in Nat /\ frame.loud \in BOOLEAN
      /\ detector \in [vad : [inSpeech : BOOLEAN, silence : Nat], armed : BOOLEAN, run : Nat]
      /\ Hangover \in Nat /\ OnsetFrames \in Nat \ {0}
      /\ watched' = Append(watched, frame.loud) /\ detector' = DetectorAfter(detector, frame)
      /\ onsets' = IF Fires(heard) THEN onsets \cup {n + 1} ELSE onsets
  BY DEF DetectorInv, DetectorTypes, Frame, Feed
<1> PICK d : d = detector'
  OBVIOUS
<1>2. /\ d \in [vad : [inSpeech : BOOLEAN, silence : Nat], armed : BOOLEAN, run : Nat]
      /\ d.vad = VadAfter(detector.vad, frame)
      /\ ~d.vad.inSpeech => d.armed /\ d.run = 0 /\ ~Fires(heard)
      /\ d.vad.inSpeech /\ Fires(heard)
           => detector.armed /\ detector.run + 1 >= OnsetFrames /\ ~d.armed /\ d.run = 0
      /\ d.vad.inSpeech /\ ~Fires(heard) /\ detector.armed
           => detector.run + 1 < OnsetFrames /\ d.armed /\ d.run = detector.run + 1
      /\ d.vad.inSpeech /\ ~detector.armed
           => ~Fires(heard) /\ ~d.armed /\ d.run = detector.run
  BY <1>1, DetectorCases
<1> HIDE DEF heard
<1>3. /\ watched' \in Seq(BOOLEAN) /\ Len(watched') = n + 1
      /\ \A i \in 1..n : IsSpeech(watched', i) <=> IsSpeech(watched, i)
  BY <1>1, SpeechKeeps
<1>4. DetectorTypes' /\ VadInv'
  <2>1. DetectorTypes'
    BY <1>2, <1>3 DEF DetectorTypes
  <2> QED
    BY <1>1, <1>2, <2>1, VadStep DEF DetectorInv
<1>5. d.vad.inSpeech <=> IsSpeech(watched', n + 1)
  <2>1. Len(watched') > 0 /\ detector'.vad.inSpeech = d.vad.inSpeech
    BY <1>1, <1>3
  <2> QED
    BY <1>3, <1>4, <2>1 DEF VadInv
<1>6. \A i \in 1..n : Confirms(watched', i) <=> Confirms(watched, i)
  <2> SUFFICES ASSUME NEW i \in 1..n PROVE Confirms(watched', i) <=> Confirms(watched, i)
    OBVIOUS
  <2>1. i > OnsetFrames => i - OnsetFrames \in 1..n
    BY <1>1
  <2>2. i > OnsetFrames => \A j \in (i - OnsetFrames + 1)..i : j \in 1..n
    BY <1>1
  <2> QED
    BY <1>1, <1>3, <2>1, <2>2 DEF Confirms
<1>7. RunInv' /\ (Confirms(watched', n + 1) <=> Fires(heard))
  <2>1. ASSUME IF d.armed
                 THEN /\ d.run < OnsetFrames /\ d.run < n + 1
                      /\ ~IsSpeech(watched', (n + 1) - d.run)
                      /\ \A i \in ((n + 1) - d.run + 1)..(n + 1) : IsSpeech(watched', i)
                 ELSE /\ d.run = 0
                      /\ \A i \in 1..(n + 1) : i + OnsetFrames > n + 1 => IsSpeech(watched', i)
        PROVE  RunInv'
    BY <1>3, <2>1 DEF RunInv
  <2>2. CASE ~d.vad.inSpeech
    <3>1. ~Confirms(watched', n + 1)
      BY <1>1, <1>5, <2>2 DEF Confirms
    <3> QED
      BY <1>1, <1>2, <1>5, <2>1, <2>2, <3>1
  <2>3. CASE d.vad.inSpeech /\ ~detector.armed
    <3>1. /\ d.run = 0
          /\ \A i \in 1..n : i + OnsetFrames > n => IsSpeech(watched, i)
      BY <1>2, <2>3 DEF DetectorInv, RunInv
    <3>2. \A i \in 1..(n + 1) : i + OnsetFrames > n + 1 => IsSpeech(watched', i)
      <4>1. \A i \in 1..(n + 1) : i = n + 1 \/ i \in 1..n
        BY <1>1
      <4>2. \A i \in 1..n : i + OnsetFrames > n + 1 => i + OnsetFrames > n
        BY <1>1
      <4> QED
        BY <1>3, <1>5, <2>3, <3>1, <4>1, <4>2
    <3>3. ~Confirms(watched', n + 1)
      <4> SUFFICES ASSUME n + 1 > OnsetFrames PROVE IsSpeech(watched', n + 1 - OnsetFrames)
        BY DEF Confirms
      <4>1. /\ n + 1 - OnsetFrames \in 1..n
            /\ (n + 1 - OnsetFrames) + OnsetFrames > n
        BY <1>1
      <4> QED
        BY <1>3, <3>1, <4>1
    <3> QED
      BY <1>2, <2>1, <2>3, <3>1, <3>2, <3>3
  <2>4. CASE d.vad.inSpeech /\ detector.armed
    <3> PICK r : r = detector.run
      OBVIOUS
    <3>0. n \in Nat /\ OnsetFrames \in Nat \ {0} /\ d.run \in Nat
      BY <1>1, <1>2
    <3>1. /\ r \in Nat /\ r < OnsetFrames /\ r < n
          /\ ~IsSpeech(watched, n - r)
          /\ \A i \in (n - r + 1)..n : IsSpeech(watched, i)
      BY <1>1, <2>4 DEF DetectorInv, RunInv
    <3>2. /\ n - r \in 1..n
          /\ ~IsSpeech(watched', n - r)
          /\ \A i \in (n - r + 1)..(n + 1) : IsSpeech(watched', i)
      <4>1. n - r \in 1..n
        BY <3>0, <3>1
      <4>2. \A i \in (n - r + 1)..(n + 1) : i \in 1..n \/ i = n + 1
        BY <3>0, <3>1
      <4> QED
        BY <1>1, <1>3, <1>5, <2>4, <3>1, <4>1, <4>2, SMTT(30)
    <3>3. CASE Fires(heard)
      <4>1. r + 1 = OnsetFrames /\ ~d.armed /\ d.run = 0
        BY <1>2, <2>4, <3>0, <3>1, <3>3
      <4>2. Confirms(watched', n + 1)
        <5>1. /\ n + 1 > OnsetFrames /\ n + 1 - OnsetFrames = n - r
          BY <3>0, <3>1, <4>1, SMTT(30)
        <5>2. n + 1 - OnsetFrames + 1 = n - r + 1
          BY <3>0, <3>1, <4>1
        <5> QED
          BY <3>2, <5>1, <5>2 DEF Confirms
      <4>3. \A i \in 1..(n + 1) : i + OnsetFrames > n + 1 => IsSpeech(watched', i)
        <5>1. \A i \in 1..(n + 1) : i + OnsetFrames > n + 1 => i \in (n - r + 1)..(n + 1)
          BY <3>0, <3>1, <4>1
        <5> QED
          BY <3>2, <5>1
      <4> QED
        BY <2>1, <3>3, <4>1, <4>2, <4>3
    <3>4. CASE ~Fires(heard)
      <4>1. r + 1 < OnsetFrames /\ d.armed /\ d.run = r + 1
        BY <1>2, <2>4, <3>4
      <4>2. ~Confirms(watched', n + 1)
        <5>1. n + 1 > OnsetFrames => n - r \in (n + 1 - OnsetFrames + 1)..(n + 1)
          BY <3>0, <3>1, <4>1
        <5> QED
          BY <3>2, <5>1 DEF Confirms
      <4>3. (n + 1) - d.run = n - r /\ d.run < n + 1 /\ d.run < OnsetFrames
        BY <3>0, <3>1, <4>1, SMTT(30)
      <4> QED
        BY <2>1, <3>2, <3>4, <4>1, <4>2, <4>3
    <3> QED
      BY <3>3, <3>4
  <2> QED
    BY <1>2, <2>2, <2>3, <2>4
<1>8. onsets' = {i \in 1..Len(watched') : Confirms(watched', i)}
  <2>1. onsets = {i \in 1..n : Confirms(watched, i)}
    BY DEF DetectorInv
  <2>2. 1..Len(watched') = (1..n) \cup {n + 1} /\ n + 1 \notin 1..n
    BY <1>1, <1>3
  <2> QED
    BY <1>1, <1>6, <1>7, <2>1, <2>2
<1> QED
  BY <1>4, <1>7, <1>8 DEF DetectorInv

---------------------------------------------------------------------------
(* Lemmas about the queues. *)

LEMMA SentinelIsNoFrame == \A x \in Frame : x # Sentinel /\ x.n # 0
<1> SUFFICES ASSUME NEW x \in Frame PROVE x # Sentinel /\ x.n # 0
  OBVIOUS
<1>1. x.n # 0 /\ Sentinel.n = 0
  BY DEF Frame, Sentinel
<1> QED
  BY <1>1

(* Taking the oldest item leaves the newest frames.                        *)
LEMMA TakeOldest ==
  ASSUME NEW q \in Seq(Item), q # <<>>, Closed(q), NEW all \in Seq(Nat), Newest(q, all)
  PROVE  /\ Tail(q) \in Seq(Item) /\ Len(Tail(q)) = Len(q) - 1
         /\ \A i \in 1..Len(Tail(q)) : Tail(q)[i] = q[i + 1]
         /\ Closed(Tail(q)) /\ Newest(Tail(q), all)
<1> PICK r : r = Tail(q)
  OBVIOUS
<1>1. /\ r \in Seq(Item) /\ Len(r) = Len(q) - 1 /\ Len(q) \in Nat \ {0} /\ Len(all) \in Nat
      /\ \A i \in 1..Len(r) : r[i] = q[i + 1]
  BY HeadTailProperties, EmptySeq
<1>2. Closed(r)
  <2> SUFFICES ASSUME NEW i \in 1..Len(r), r[i] = Sentinel PROVE i = Len(r)
    BY DEF Closed
  <2>1. i + 1 \in 1..Len(q) /\ q[i + 1] = Sentinel
    BY <1>1
  <2>2. i + 1 = Len(q) /\ i \in Nat
    <3>1. \A k \in 1..Len(q) : q[k] = Sentinel => k = Len(q)
      BY DEF Closed
    <3>2. i + 1 = Len(q)
      BY <2>1, <3>1
    <3> QED
      BY <3>2
  <2>3. Len(r) + 1 = Len(q) /\ Len(r) \in Nat
    BY <1>1
  <2> QED
    BY <2>2, <2>3
<1>3. CASE Len(q) = 1
  <2>1. Len(r) = 0 /\ r = <<>>
    BY <1>1, <1>3, EmptySeq
  <2>2. FramesIn(r) = 0
    BY <2>1 DEF FramesIn
  <2> QED
    BY <1>1, <1>2, <2>2 DEF Newest
<1>4. CASE Len(q) > 1
  <2>1. r # <<>> /\ r[Len(r)] = q[Len(q)]
    <3>1. Len(r) > 0 /\ Len(r) \in 1..Len(r) /\ Len(r) + 1 = Len(q)
      BY <1>1, <1>4
    <3>2. r[Len(r)] = q[Len(r) + 1]
      BY <1>1, <3>1
    <3> QED
      BY <1>1, <3>1, <3>2, EmptySeq, SMTT(30)
  <2>2. FramesIn(r) = FramesIn(q) - 1 /\ FramesIn(q) \in 1..Len(q)
    BY <1>1, <1>4, <2>1 DEF FramesIn
  <2>3. FramesIn(r) <= Len(all)
    BY <1>1, <2>2 DEF Newest
  <2>4. ASSUME NEW i \in 1..FramesIn(r)
        PROVE  r[i].n = all[Len(all) - FramesIn(r) + i]
    <3>1. /\ i \in 1..Len(r) /\ i + 1 \in 1..FramesIn(q)
          /\ Len(all) - FramesIn(r) + i = Len(all) - FramesIn(q) + (i + 1)
      BY <1>1, <2>2
    <3> QED
      BY <1>1, <3>1 DEF Newest
  <2> QED
    BY <1>1, <1>2, <2>3, <2>4 DEF Newest
<1> QED
  BY <1>1, <1>3, <1>4

Open(q) == \A i \in 1..Len(q) : q[i] # Sentinel

LEMMA OpenQueue ==
  ASSUME NEW q \in Seq(Item), Open(q)
  PROVE  FramesIn(q) = Len(q) /\ Closed(q)
<1>1. Len(q) \in Nat /\ (q # <<>> => Len(q) \in 1..Len(q))
  BY EmptySeq
<1> QED
  BY <1>1 DEF Open, FramesIn, Closed

(* Making room, which drops the oldest frame of a full queue.              *)
LEMMA MakeRoom ==
  ASSUME NEW q \in Seq(Item), Open(q), NEW all \in Seq(Nat), Newest(q, all),
         NEW max \in Nat \ {0}, Len(q) <= max
  PROVE  /\ Squeezed(q, max) \in Seq(Item) /\ Len(Squeezed(q, max)) < max
         /\ Open(Squeezed(q, max)) /\ Newest(Squeezed(q, max), all)
         /\ Len(Squeezed(q, max)) = Len(q) - IF Len(q) >= max THEN 1 ELSE 0
<1>1. Len(q) \in Nat /\ Closed(q)
  BY OpenQueue
<1>2. CASE Len(q) >= max
  <2>1. q # <<>> /\ Squeezed(q, max) = Tail(q)
    BY <1>1, <1>2 DEF Squeezed
  <2>2. /\ Tail(q) \in Seq(Item) /\ Len(Tail(q)) = Len(q) - 1 /\ Newest(Tail(q), all)
        /\ \A i \in 1..Len(Tail(q)) : Tail(q)[i] = q[i + 1]
    BY <1>1, <2>1, TakeOldest
  <2>3. Open(Tail(q))
    BY <1>1, <2>2 DEF Open
  <2> QED
    BY <1>1, <1>2, <2>1, <2>2, <2>3
<1>3. CASE ~(Len(q) >= max)
  <2>1. Squeezed(q, max) = q
    BY <1>3 DEF Squeezed
  <2> QED
    BY <1>1, <1>3, <2>1
<1> QED
  BY <1>2, <1>3

(* _offer(): the frame that was taken last is the newest in each queue.    *)
LEMMA OfferNewest ==
  ASSUME NEW q \in Seq(Item), Open(q), NEW all \in Seq(Nat), Newest(q, all), NEW x \in Frame
  PROVE  /\ Append(q, x) \in Seq(Item) /\ Len(Append(q, x)) = Len(q) + 1
         /\ Append(all, x.n) \in Seq(Nat) /\ Len(Append(all, x.n)) = Len(all) + 1
         /\ Open(Append(q, x)) /\ Closed(Append(q, x))
         /\ Newest(Append(q, x), Append(all, x.n))
<1> PICK r, more : r = Append(q, x) /\ more = Append(all, x.n)
  OBVIOUS
<1>1. /\ r \in Seq(Item) /\ Len(r) = Len(q) + 1 /\ Len(q) \in Nat /\ r[Len(q) + 1] = x
      /\ \A i \in 1..Len(q) : r[i] = q[i]
  BY AppendProperties DEF Item
<1>2. /\ more \in Seq(Nat) /\ Len(more) = Len(all) + 1 /\ Len(all) \in Nat
      /\ more[Len(all) + 1] = x.n
      /\ \A i \in 1..Len(all) : more[i] = all[i]
  BY AppendProperties DEF Frame
<1>3. Open(r)
  <2>1. x # Sentinel
    BY SentinelIsNoFrame
  <2>2. \A i \in 1..(Len(q) + 1) : i = Len(q) + 1 \/ i \in 1..Len(q)
    BY <1>1
  <2>3. \A i \in 1..(Len(q) + 1) : r[i] # Sentinel
    BY <1>1, <2>1, <2>2 DEF Open
  <2> QED
    BY <1>1, <2>3 DEF Open
<1>4. FramesIn(r) = Len(r) /\ FramesIn(q) = Len(q) /\ Closed(r)
  BY <1>1, <1>3, OpenQueue
<1>5. Len(q) <= Len(all) /\ \A i \in 1..Len(q) : q[i].n = all[Len(all) - Len(q) + i]
  BY <1>4 DEF Newest
<1>6. ASSUME NEW i \in 1..Len(r)
      PROVE  r[i].n = more[Len(more) - Len(r) + i]
  <2>1. CASE i = Len(q) + 1
    <3>1. Len(more) - Len(r) + i = Len(all) + 1
      BY <1>1, <1>2, <1>5, <2>1
    <3> QED
      BY <1>1, <1>2, <2>1, <3>1
  <2>2. CASE i \in 1..Len(q)
    <3>1. /\ Len(more) - Len(r) + i = Len(all) - Len(q) + i
          /\ Len(all) - Len(q) + i \in 1..Len(all)
      BY <1>1, <1>2, <1>5, <2>2
    <3> QED
      BY <1>1, <1>2, <1>5, <2>2, <3>1
  <2>3. i = Len(q) + 1 \/ i \in 1..Len(q)
    BY <1>1
  <2> QED
    BY <2>1, <2>2, <2>3
<1>7. Newest(r, more)
  <2>1. Len(r) <= Len(more)
    BY <1>1, <1>2, <1>5
  <2> QED
    BY <1>4, <1>6, <2>1 DEF Newest
<1> QED
  BY <1>1, <1>2, <1>3, <1>4, <1>7

(* The sentinel ends a queue and is no frame of it.                        *)
LEMMA AddSentinel ==
  ASSUME NEW q \in Seq(Item), Open(q), NEW all \in Seq(Nat), Newest(q, all)
  PROVE  /\ Append(q, Sentinel) \in Seq(Item) /\ Len(Append(q, Sentinel)) = Len(q) + 1
         /\ Closed(Append(q, Sentinel)) /\ Newest(Append(q, Sentinel), all)
<1> PICK r : r = Append(q, Sentinel)
  OBVIOUS
<1>1. /\ r \in Seq(Item) /\ Len(r) = Len(q) + 1 /\ Len(q) \in Nat /\ r[Len(q) + 1] = Sentinel
      /\ \A i \in 1..Len(q) : r[i] = q[i]
  BY AppendProperties DEF Item
<1>2. FramesIn(q) = Len(q)
  BY OpenQueue
<1>3. r # <<>> /\ FramesIn(r) = Len(q)
  <2>1. r # <<>>
    BY <1>1
  <2> QED
    BY <1>1, <2>1 DEF FramesIn
<1>4. Closed(r)
  BY <1>1 DEF Closed, Open
<1>5. Newest(r, all)
  BY <1>1, <1>2, <1>3 DEF Newest
<1> QED
  BY <1>1, <1>4, <1>5

---------------------------------------------------------------------------
(* The queues step by step. *)

LEMMA ConstantsAreNat ==
  /\ OnsetFrames \in Nat \ {0} /\ MicQueue \in Nat \ {0} /\ SubQueue \in Nat \ {0}
  /\ MaxFrames \in Nat
BY CaptureAssumption

LEMMA QueuesInit == Init => QueuesInv
<1> SUFFICES ASSUME Init PROVE QueuesInv
  OBVIOUS
<1> USE DEF Init
<1>1. <<>> \in Seq(Frame) /\ <<>> \in Seq(Nat) /\ <<>> \in Seq(Item) /\ Len(<<>>) = 0
  OBVIOUS
<1>2. \A s \in Subs : queues[s] = <<>> /\ dropped[s] = 0 /\ got[s] = 0
  OBVIOUS
<1>3. Types
  <2>1. queues \in [Subs -> Seq(Item)] /\ \A s \in Subs : Len(queues[s]) <= SubQueue
    BY <1>1, <1>2, ConstantsAreNat
  <2> QED
    BY <1>1, <2>1, ConstantsAreNat DEF Types
<1>4. MicInOrder
  BY <1>1 DEF MicInOrder
<1>5. FansOutInOrder
  <2>1. Closed(<<>>) /\ Newest(<<>>, offered)
    BY <1>1 DEF Closed, Newest, FramesIn
  <2> QED
    BY <1>1, <1>2, <2>1 DEF FansOutInOrder
<1> QED
  BY <1>3, <1>4, <1>5 DEF QueuesInv

(* _callback(): the next frame of the microphone, behind those on the way. *)
LEMMA CallbackStep ==
  ASSUME QueuesInv, NEW loud \in BOOLEAN, NEW note \in BOOLEAN, Callback(loud, note)
  PROVE  QueuesInv'
<1> USE DEF QueuesInv
<1>1. /\ live /\ source = "open" /\ captured' = captured + 1 /\ captured \in Nat
      /\ posted \in Seq(Frame) /\ posted' = Append(posted, NewFrame(loud, note))
      /\ UNCHANGED <<live, source, micQ, micDropped, offered, queues, dropped, got, reader>>
  BY DEF Callback, fanOut, reading, Types
<1>2. NewFrame(loud, note) \in Frame /\ NewFrame(loud, note).n = captured + 1
  BY <1>1 DEF NewFrame, Frame
<1>3. /\ posted' \in Seq(Frame) /\ Len(posted') = Len(posted) + 1 /\ Len(posted) \in Nat
      /\ \A i \in 1..Len(posted) : posted'[i] = posted[i]
      /\ posted'[Len(posted) + 1].n = captured + 1
  BY <1>1, <1>2, AppendProperties
<1>4. Types'
  BY <1>1, <1>3 DEF Types
<1>5. MicInOrder'
  <2>1. Len(micQ) \in Nat /\ Len(offered) \in Nat /\ micDropped \in Nat
    BY DEF Types
  <2>2. ASSUME NEW i \in 1..(Len(posted) + 1)
        PROVE  posted'[i].n = captured' - Len(posted') + i
    <3>1. CASE i \in 1..Len(posted)
      BY <1>1, <1>3, <3>1 DEF MicInOrder
    <3>2. CASE i = Len(posted) + 1
      BY <1>1, <1>3, <3>2
    <3> QED
      BY <1>3, <3>1, <3>2
  <2>3. captured' - Len(posted') = captured - Len(posted)
    BY <1>1, <1>3
  <2>4. captured' = Len(offered) + Len(micQ) + Len(posted') + micDropped
    BY <1>1, <1>3, <2>1 DEF MicInOrder
  <2> QED
    BY <1>1, <1>3, <2>2, <2>3, <2>4 DEF MicInOrder
<1>6. FansOutInOrder'
  BY <1>1 DEF FansOutInOrder
<1> QED
  BY <1>4, <1>5, <1>6

(* _push(): the frame follows what is in the queue, whose oldest may go.   *)
LEMMA PushStep ==
  ASSUME QueuesInv, Push
  PROVE  QueuesInv'
<1> USE DEF QueuesInv
<1> PICK q : q = Squeezed(micQ, MicQueue)
  OBVIOUS
<1>1. /\ posted \in Seq(Frame) /\ posted # <<>> /\ posted' = Tail(posted)
      /\ micQ \in Seq(Frame) /\ Len(micQ) <= MicQueue
      /\ micQ' = Append(q, Head(posted))
      /\ micDropped' = micDropped + IF Len(micQ) >= MicQueue THEN 1 ELSE 0
      /\ UNCHANGED <<live, source, captured, offered, queues, dropped, got, reader>>
      /\ captured \in Nat /\ micDropped \in Nat
  BY DEF Push, fanOut, reading, Types
<1>2. /\ posted' \in Seq(Frame) /\ Len(posted') = Len(posted) - 1 /\ Len(posted) \in Nat \ {0}
      /\ Head(posted) = posted[1] /\ Head(posted) \in Frame
      /\ \A i \in 1..Len(posted') : posted'[i] = posted[i + 1]
  BY <1>1, HeadTailProperties, EmptySeq
<1>3. /\ q \in Seq(Frame) /\ Len(q) \in Nat /\ Len(q) < MicQueue /\ Len(micQ) \in Nat
      /\ Len(q) = Len(micQ) - IF Len(micQ) >= MicQueue THEN 1 ELSE 0
      /\ \A i \in 1..Len(q) : q[i] = micQ[(Len(micQ) - Len(q)) + i]
  <2>1. CASE Len(micQ) >= MicQueue
    <3>1. micQ # <<>> /\ q = Tail(micQ)
      BY <1>1, <2>1, ConstantsAreNat DEF Squeezed
    <3>2. q \in Seq(Frame) /\ Len(q) = Len(micQ) - 1 /\ \A i \in 1..Len(q) : q[i] = micQ[i + 1]
      BY <1>1, <3>1, HeadTailProperties
    <3>3. Len(micQ) \in Nat /\ Len(q) \in Nat /\ Len(micQ) - Len(q) = 1
      BY <1>1, <3>2
    <3>4. \A i \in 1..Len(q) : (Len(micQ) - Len(q)) + i = i + 1
      BY <3>3
    <3> QED
      BY <1>1, <2>1, <3>2, <3>3, <3>4, ConstantsAreNat
  <2>2. CASE ~(Len(micQ) >= MicQueue)
    <3>1. q = micQ
      BY <2>2 DEF Squeezed
    <3>2. Len(micQ) \in Nat /\ \A i \in 1..Len(q) : (Len(micQ) - Len(q)) + i = i
      BY <1>1, <3>1
    <3> QED
      BY <1>1, <2>2, <3>1, <3>2, ConstantsAreNat
  <2> QED
    BY <2>1, <2>2
<1>4. /\ micQ' \in Seq(Frame) /\ Len(micQ') = Len(q) + 1
      /\ \A i \in 1..Len(q) : micQ'[i] = q[i]
      /\ micQ'[Len(q) + 1] = Head(posted)
  BY <1>1, <1>2, <1>3, AppendProperties
<1>5. Types'
  <2>1. Len(micQ') <= MicQueue /\ micDropped' \in Nat
    BY <1>1, <1>3, <1>4, ConstantsAreNat
  <2> QED
    BY <1>1, <1>2, <1>4, <2>1 DEF Types
<1>6. ASSUME live, source = "open" PROVE MicInOrder'
  <2>1. /\ \A i \in 1..Len(posted) : posted[i].n = captured - Len(posted) + i
        /\ \A i \in 1..Len(micQ) : micQ[i].n = captured - Len(posted) - Len(micQ) + i
        /\ captured = Len(offered) + Len(micQ) + Len(posted) + micDropped
        /\ Len(offered) \in Nat
    BY <1>6 DEF MicInOrder, Types
  <2> PICK P, M, K : P = Len(posted) /\ M = Len(micQ) /\ K = Len(q)
    OBVIOUS
  <2>0. /\ P \in Nat \ {0} /\ M \in Nat /\ K \in Nat /\ captured \in Nat
        /\ Len(posted') = P - 1 /\ Len(micQ') = K + 1 /\ captured' = captured
    BY <1>1, <1>2, <1>3, <1>4
  <2>2. ASSUME NEW i \in 1..Len(posted')
        PROVE  posted'[i].n = captured' - Len(posted') + i
    <3>1. i + 1 \in 1..Len(posted) /\ captured' - Len(posted') + i = captured - Len(posted) + (i + 1)
      BY <1>1, <1>2
    <3> QED
      BY <1>2, <2>1, <3>1
  <2>3. ASSUME NEW i \in 1..Len(micQ')
        PROVE  micQ'[i].n = captured' - Len(posted') - Len(micQ') + i
    <3>1. CASE i \in 1..Len(q)
      <4>1. (Len(micQ) - Len(q)) + i \in 1..Len(micQ)
        BY <1>3, <3>1
      <4>2. captured' - Len(posted') - Len(micQ') + i = captured - P - M + ((M - K) + i)
        BY <2>0, <3>1
      <4>3. micQ'[i] = micQ[(Len(micQ) - Len(q)) + i]
        BY <1>3, <1>4, <3>1
      <4> QED
        BY <2>1, <4>1, <4>2, <4>3
    <3>2. CASE i = Len(q) + 1
      <4>1. captured' - Len(posted') - Len(micQ') + i = captured - P + 1
        BY <2>0, <3>2
      <4>2. posted[1].n = captured - Len(posted) + 1
        BY <1>2, <2>1
      <4> QED
        BY <1>2, <1>4, <3>2, <4>1, <4>2
    <3>3. i \in 1..Len(q) \/ i = Len(q) + 1
      BY <1>3, <1>4
    <3> QED
      BY <3>1, <3>2, <3>3
  <2>4. captured' = Len(offered') + Len(micQ') + Len(posted') + micDropped'
    <3>1. captured = Len(offered) + M + P + micDropped /\ Len(offered) \in Nat /\ micDropped \in Nat
      BY <1>1, <2>1
    <3>2. CASE M >= MicQueue
      <4>1. micDropped' = micDropped + 1 /\ K = M - 1 /\ offered' = offered
        BY <1>1, <1>3, <3>2
      <4> QED
        BY <2>0, <3>1, <4>1
    <3>3. CASE ~(M >= MicQueue)
      <4>1. micDropped' = micDropped + 0 /\ K = M - 0 /\ offered' = offered
        BY <1>1, <1>3, <3>3
      <4> QED
        BY <2>0, <3>1, <4>1
    <3> QED
      BY <3>2, <3>3
  <2> QED
    BY <2>2, <2>3, <2>4 DEF MicInOrder
<1>7. MicInOrder'
  BY <1>1, <1>6 DEF MicInOrder
<1>8. FansOutInOrder'
  BY <1>1 DEF FansOutInOrder
<1> QED
  BY <1>5, <1>7, <1>8

(* _offer(): every queue gets the frame and counts what it lost for it.    *)
LEMMA OfferStep ==
  ASSUME Types, FansOutInOrder, source = "open", NEW x \in Frame, Offer(x),
         UNCHANGED <<source, got>>
  PROVE  /\ FansOutInOrder'
         /\ queues' \in [Subs -> Seq(Item)] /\ \A s \in Subs : Len(queues'[s]) <= SubQueue
         /\ dropped' \in [Subs -> Nat]
         /\ offered' \in Seq(Nat) /\ Len(offered') = Len(offered) + 1
<1>1. /\ offered' = Append(offered, x.n) /\ offered \in Seq(Nat)
      /\ queues' = [s \in Subs |-> Append(Squeezed(queues[s], SubQueue), x)]
      /\ dropped' = [s \in Subs |-> dropped[s] + IF Len(queues[s]) >= SubQueue THEN 1 ELSE 0]
      /\ UNCHANGED <<source, got>>
      /\ SubQueue \in Nat \ {0} /\ x.n \in Nat
      /\ dropped \in [Subs -> Nat] /\ got \in [Subs -> Nat]
  BY ConstantsAreNat DEF Offer, Types, Frame
<1>2. ASSUME NEW s \in Subs
      PROVE  /\ queues'[s] \in Seq(Item) /\ Len(queues'[s]) <= SubQueue
             /\ dropped'[s] \in Nat /\ Len(offered') = Len(offered) + 1
             /\ Open(queues'[s]) /\ Closed(queues'[s]) /\ Newest(queues'[s], offered')
             /\ Len(offered') = got'[s] + Len(queues'[s]) + dropped'[s]
    <2> PICK q, r : q = queues[s] /\ r = Squeezed(queues[s], SubQueue)
      OBVIOUS
    <2>1. q \in Seq(Item) /\ Len(q) <= SubQueue /\ Open(q) /\ Newest(q, offered)
      BY DEF Types, FansOutInOrder, Open
    <2>2. /\ r \in Seq(Item) /\ Len(r) < SubQueue /\ Open(r) /\ Newest(r, offered)
          /\ Len(r) = Len(q) - IF Len(q) >= SubQueue THEN 1 ELSE 0
      BY <1>1, <2>1, MakeRoom
    <2>3. queues'[s] = Append(r, x) /\ offered' = Append(offered, x.n)
      BY <1>1
    <2>4. /\ queues'[s] \in Seq(Item) /\ Len(queues'[s]) = Len(r) + 1
          /\ Len(offered') = Len(offered) + 1
          /\ Open(queues'[s]) /\ Closed(queues'[s]) /\ Newest(queues'[s], offered')
      BY <1>1, <2>2, <2>3, OfferNewest
    <2>5. /\ Len(r) \in Nat /\ Len(q) \in Nat /\ Len(offered) \in Nat
          /\ dropped[s] \in Nat /\ got[s] \in Nat /\ got'[s] = got[s]
          /\ Len(offered) = got[s] + Len(q) + dropped[s]
      <3>1. Len(offered) = got[s] + Len(queues[s]) + dropped[s]
        BY DEF FansOutInOrder
      <3>2. Len(r) \in Nat /\ Len(q) \in Nat
        BY <2>1, <2>2
      <3>3. Len(offered) \in Nat /\ dropped[s] \in Nat /\ got[s] \in Nat /\ got'[s] = got[s]
        BY <1>1
      <3> QED
        BY <3>1, <3>2, <3>3
    <2>6. dropped'[s] = dropped[s] + IF Len(q) >= SubQueue THEN 1 ELSE 0
      BY <1>1
    <2>7. /\ dropped'[s] \in Nat /\ Len(queues'[s]) <= SubQueue
          /\ Len(offered') = got'[s] + Len(queues'[s]) + dropped'[s]
      <3>1. CASE Len(q) >= SubQueue
        <4>1. dropped'[s] = dropped[s] + 1 /\ Len(r) = Len(q) - 1
          BY <2>2, <2>6, <3>1
        <4>2. /\ Len(queues'[s]) = Len(r) + 1 /\ Len(offered') = Len(offered) + 1
              /\ Len(r) < SubQueue /\ SubQueue \in Nat
          BY <1>1, <2>2, <2>4
        <4>3. dropped'[s] \in Nat
          BY <2>5, <4>1
        <4>4. Len(queues'[s]) <= SubQueue
          BY <2>5, <4>2
        <4>5. Len(offered') = got[s] + (Len(r) + 1) + dropped'[s]
          <5>1. \A a, b, c, d, e \in Nat :
                  e = c + b + d /\ a = b - 1 => e + 1 = c + (a + 1) + (d + 1)
            OBVIOUS
          <5>2. Len(offered) + 1 = got[s] + (Len(r) + 1) + (dropped[s] + 1)
            BY <2>5, <4>1, <5>1, SMTT(30)
          <5> QED
            BY <4>1, <4>2, <5>2
        <4> QED
          BY <2>5, <4>2, <4>3, <4>4, <4>5
      <3>2. CASE ~(Len(q) >= SubQueue)
        <4>1. dropped'[s] = dropped[s] + 0 /\ Len(r) = Len(q) - 0
          BY <2>2, <2>6, <3>2
        <4>2. /\ Len(queues'[s]) = Len(r) + 1 /\ Len(offered') = Len(offered) + 1
              /\ Len(r) < SubQueue /\ SubQueue \in Nat
          BY <1>1, <2>2, <2>4
        <4>3. dropped'[s] \in Nat
          BY <2>5, <4>1
        <4>4. Len(queues'[s]) <= SubQueue
          BY <2>5, <4>2
        <4>5. Len(offered') = got[s] + (Len(r) + 1) + dropped'[s]
          <5>1. \A a, b, c, d, e \in Nat :
                  e = c + b + d /\ a = b - 0 => e + 1 = c + (a + 1) + (d + 0)
            OBVIOUS
          <5>2. Len(offered) + 1 = got[s] + (Len(r) + 1) + (dropped[s] + 0)
            BY <2>5, <4>1, <5>1
          <5> QED
            BY <4>1, <4>2, <5>2
        <4> QED
          BY <2>5, <4>2, <4>3, <4>4, <4>5
      <3> QED
        BY <3>1, <3>2
    <2> QED
      BY <2>4, <2>7
<1>3. queues' \in [Subs -> Seq(Item)]
  BY <1>1, <1>2
<1>4. dropped' \in [Subs -> Nat]
  BY <1>1, <1>2
<1>5. offered' \in Seq(Nat) /\ Len(offered') = Len(offered) + 1
  BY <1>1, AppendProperties
<1>6. FansOutInOrder'
  BY <1>2 DEF FansOutInOrder, Open
<1> QED
  BY <1>2, <1>3, <1>4, <1>5, <1>6

(* run(), live: the oldest frame of the microphone goes to everybody.      *)
LEMMA TakeFromMicStep ==
  ASSUME QueuesInv, TakeFromMic
  PROVE  QueuesInv'
<1> USE DEF QueuesInv
<1>1. /\ live /\ source = "open" /\ micQ # <<>> /\ micQ' = Tail(micQ)
      /\ micQ \in Seq(Frame) /\ Len(micQ) <= MicQueue
      /\ UNCHANGED <<live, captured, posted, micDropped, got, reader>>
  BY DEF TakeFromMic, reading, Types
<1>2. /\ micQ' \in Seq(Frame) /\ Len(micQ') = Len(micQ) - 1 /\ Len(micQ) \in Nat \ {0}
      /\ Head(micQ) \in Frame
      /\ \A i \in 1..Len(micQ') : micQ'[i] = micQ[i + 1]
  BY <1>1, HeadTailProperties, EmptySeq
<1>3. Len(micQ') <= MicQueue
  BY <1>1, <1>2, ConstantsAreNat
<1>4. CASE Head(micQ).note
  <2>1. source' = "failed" /\ UNCHANGED <<offered, queues, dropped>>
    BY <1>4 DEF TakeFromMic, fanOut
  <2>2. Types'
    BY <1>1, <1>2, <1>3, <2>1 DEF Types
  <2>3. MicInOrder' /\ FansOutInOrder'
    BY <1>1, <2>1 DEF MicInOrder, FansOutInOrder
  <2> QED
    BY <2>2, <2>3
<1>5. CASE ~Head(micQ).note
  <2>1. Offer(Head(micQ)) /\ UNCHANGED source
    BY <1>5 DEF TakeFromMic
  <2>2. /\ FansOutInOrder'
        /\ queues' \in [Subs -> Seq(Item)] /\ \A s \in Subs : Len(queues'[s]) <= SubQueue
        /\ dropped' \in [Subs -> Nat]
        /\ offered' \in Seq(Nat) /\ Len(offered') = Len(offered) + 1
    BY <1>1, <1>2, <2>1, OfferStep
  <2>3. Types'
    BY <1>1, <1>2, <1>3, <2>1, <2>2 DEF Types
  <2>4. /\ \A i \in 1..Len(posted) : posted[i].n = captured - Len(posted) + i
        /\ \A i \in 1..Len(micQ) : micQ[i].n = captured - Len(posted) - Len(micQ) + i
        /\ captured = Len(offered) + Len(micQ) + Len(posted) + micDropped
        /\ Len(offered) \in Nat /\ Len(posted) \in Nat /\ micDropped \in Nat /\ captured \in Nat
    BY <1>1 DEF MicInOrder, Types
  <2>5. ASSUME NEW i \in 1..Len(micQ')
        PROVE  micQ'[i].n = captured' - Len(posted') - Len(micQ') + i
    <3>1. /\ i + 1 \in 1..Len(micQ) /\ posted' = posted /\ captured' = captured
          /\ captured - Len(posted) - Len(micQ') + i = captured - Len(posted) - Len(micQ) + (i + 1)
      BY <1>1, <1>2, <2>4
    <3> QED
      BY <1>2, <2>4, <3>1
  <2>6. captured' = Len(offered') + Len(micQ') + Len(posted') + micDropped'
    BY <1>1, <1>2, <2>2, <2>4
  <2>7. MicInOrder'
    BY <1>1, <2>4, <2>5, <2>6 DEF MicInOrder
  <2> QED
    BY <2>2, <2>3, <2>7
<1> QED
  BY <1>4, <1>5

(* run(), over a file: the next frame goes to everybody.                   *)
LEMMA TakeFromFileStep ==
  ASSUME QueuesInv, NEW loud \in BOOLEAN, TakeFromFile(loud)
  PROVE  QueuesInv'
<1> USE DEF QueuesInv
<1>1. /\ ~live /\ source = "open" /\ captured' = captured + 1 /\ captured \in Nat
      /\ Offer(NewFrame(loud, FALSE))
      /\ UNCHANGED <<live, source, posted, micQ, micDropped, got, reader>>
  BY DEF TakeFromFile, reading, Types
<1>2. NewFrame(loud, FALSE) \in Frame
  BY <1>1 DEF NewFrame, Frame
<1>3. /\ FansOutInOrder'
      /\ queues' \in [Subs -> Seq(Item)] /\ \A s \in Subs : Len(queues'[s]) <= SubQueue
      /\ dropped' \in [Subs -> Nat] /\ offered' \in Seq(Nat)
  BY <1>1, <1>2, OfferStep
<1>4. Types'
  BY <1>1, <1>3 DEF Types
<1> QED
  BY <1>1, <1>3, <1>4 DEF MicInOrder

(* The end of the source: the sentinel may cost the oldest frame.          *)
LEMMA EndOfSourceStep ==
  ASSUME QueuesInv, EndOfSource
  PROVE  QueuesInv'
<1> USE DEF QueuesInv
<1>1. /\ ~live /\ source = "open" /\ source' = "ended"
      /\ queues' = [s \in Subs |-> WithSentinel(queues[s])]
      /\ UNCHANGED <<live, captured, posted, micQ, micDropped, offered, dropped, got, reader>>
      /\ offered \in Seq(Nat)
  BY DEF EndOfSource, reading, Types
<1>2. ASSUME NEW s \in Subs
      PROVE  /\ queues'[s] \in Seq(Item) /\ Len(queues'[s]) <= SubQueue
             /\ Closed(queues'[s]) /\ Newest(queues'[s], offered)
  <2> PICK q, r : q = queues[s] /\ r = Squeezed(queues[s], SubQueue)
    OBVIOUS
  <2>1. q \in Seq(Item) /\ Len(q) <= SubQueue /\ Open(q) /\ Newest(q, offered)
    BY <1>1 DEF Types, FansOutInOrder, Open
  <2>2. r \in Seq(Item) /\ Len(r) < SubQueue /\ Open(r) /\ Newest(r, offered)
    BY <1>1, <2>1, MakeRoom, ConstantsAreNat
  <2>3. queues'[s] = Append(r, Sentinel)
    BY <1>1 DEF WithSentinel
  <2>4. /\ queues'[s] \in Seq(Item) /\ Len(queues'[s]) = Len(r) + 1
        /\ Closed(queues'[s]) /\ Newest(queues'[s], offered)
    BY <1>1, <2>2, <2>3, AddSentinel
  <2>5. Len(r) \in Nat
    BY <2>2
  <2> QED
    BY <2>2, <2>4, <2>5, ConstantsAreNat
<1>3. queues' \in [Subs -> Seq(Item)]
  BY <1>1, <1>2
<1>4. Types'
  BY <1>1, <1>2, <1>3 DEF Types
<1>5. FansOutInOrder'
  BY <1>1, <1>2 DEF FansOutInOrder
<1> QED
  BY <1>1, <1>4, <1>5 DEF MicInOrder

(* _consume(): a subscriber takes the oldest item.                         *)
LEMMA ReceiveQueuesStep ==
  ASSUME QueuesInv, NEW s \in Subs, Receive(s)
  PROVE  QueuesInv'
<1> USE DEF QueuesInv
<1>1. /\ reader[s] = "reading" /\ queues[s] # <<>>
      /\ queues' = [queues EXCEPT ![s] = Tail(@)] /\ queues \in [Subs -> Seq(Item)]
      /\ UNCHANGED <<live, source, captured, posted, micQ, micDropped, offered, dropped>>
      /\ offered \in Seq(Nat) /\ dropped \in [Subs -> Nat] /\ got \in [Subs -> Nat]
  BY DEF Receive, mic, Types
<1> PICK q : q = queues[s]
  OBVIOUS
<1>2. /\ q \in Seq(Item) /\ q # <<>> /\ Closed(q) /\ Newest(q, offered) /\ Len(q) <= SubQueue
      /\ source # "ended" => Open(q)
      /\ source # "ended" => Len(offered) = got[s] + Len(q) + dropped[s]
  BY <1>1 DEF FansOutInOrder, Open, Types
<1>3. /\ queues'[s] = Tail(q)
      /\ Tail(q) \in Seq(Item) /\ Len(Tail(q)) = Len(q) - 1 /\ Len(q) \in Nat \ {0}
      /\ \A i \in 1..Len(Tail(q)) : Tail(q)[i] = q[i + 1]
      /\ Closed(Tail(q)) /\ Newest(Tail(q), offered)
      /\ Head(q) = q[1]
  BY <1>1, <1>2, TakeOldest, HeadTailProperties, EmptySeq
<1>4. \A t \in Subs \ {s} : queues'[t] = queues[t]
  BY <1>1
<1>5. source # "ended" => Open(Tail(q))
  <2>1. \A i \in 1..Len(Tail(q)) : i + 1 \in 1..Len(q)
    BY <1>3
  <2> QED
    BY <1>2, <1>3, <2>1 DEF Open
<1>6. /\ reader' \in [Subs -> {"reading", "ended", "left"}]
      /\ got' \in [Subs -> Nat] /\ \A t \in Subs \ {s} : got'[t] = got[t]
      /\ source # "ended" => got'[s] = got[s] + 1
  <2>1. CASE Head(q) = Sentinel
    <3>1. reader' = [reader EXCEPT ![s] = "ended"] /\ got' = got
      BY <2>1 DEF Receive
    <3>2. source = "ended"
      BY <1>2, <1>3, <2>1 DEF Open
    <3> QED
      BY <1>1, <3>1, <3>2 DEF Types
  <2>2. CASE Head(q) # Sentinel
    <3>1. got' = [got EXCEPT ![s] = @ + 1] /\ reader' = reader
      BY <2>2 DEF Receive
    <3> QED
      BY <1>1, <3>1 DEF Types
  <2> QED
    BY <2>1, <2>2
<1>7. Types'
  <2>1. queues' \in [Subs -> Seq(Item)]
    BY <1>1, <1>3
  <2>2. \A t \in Subs : Len(queues'[t]) <= SubQueue
    <3>1. Len(queues'[s]) <= SubQueue
      BY <1>2, <1>3, ConstantsAreNat
    <3> QED
      BY <1>4, <3>1 DEF Types
  <2> QED
    BY <1>1, <1>6, <2>1, <2>2 DEF Types
<1>8. MicInOrder'
  BY <1>1 DEF MicInOrder
<1>9. FansOutInOrder'
  <2> SUFFICES ASSUME NEW t \in Subs
               PROVE  /\ source # "ended" => Open(queues'[t])
                      /\ source # "ended" => Len(offered) = got'[t] + Len(queues'[t]) + dropped[t]
                      /\ Closed(queues'[t]) /\ Newest(queues'[t], offered)
    BY <1>1 DEF FansOutInOrder, Open
  <2>1. CASE t # s
    BY <1>4, <1>6, <2>1 DEF FansOutInOrder, Open
  <2>2. CASE t = s
    <3>1. source # "ended" => Len(offered) = got'[s] + Len(queues'[s]) + dropped[s]
      <4>1. got[s] \in Nat /\ dropped[s] \in Nat /\ Len(queues'[s]) = Len(q) - 1
        BY <1>1, <1>3
      <4> QED
        BY <1>2, <1>3, <1>6, <4>1
    <3> QED
      BY <1>3, <1>5, <2>2, <3>1
  <2> QED
    BY <2>1, <2>2
<1> QED
  BY <1>7, <1>8, <1>9

(* What Newest says frame by frame is what the property says of Numbers.   *)
LEMMA NewestIsSuffix ==
  ASSUME NEW q \in Seq(Item), Closed(q), NEW all \in Seq(Nat), Newest(q, all)
  PROVE  IsSuffix(Numbers(q), all)
<1> PICK k, m : k = FramesIn(q) /\ m = Len(all)
  OBVIOUS
<1>1. /\ Len(q) \in Nat /\ m \in Nat /\ k \in 0..Len(q) /\ k <= m
      /\ \A i \in 1..k : q[i].n = all[m - k + i] /\ m - k + i \in 1..m
  <2>1. Len(q) \in Nat /\ m \in Nat /\ (q # <<>> => Len(q) > 0)
    BY EmptySeq
  <2>2. k \in 0..Len(q) /\ k <= m
    BY <2>1 DEF FramesIn, Newest
  <2>3. \A i \in 1..k : m - k + i \in 1..m
    BY <2>1, <2>2
  <2> QED
    BY <2>1, <2>2, <2>3 DEF Newest
<1>2. Numbers(q) = [i \in 1..k |-> all[m - k + i]]
  <2>1. Numbers(q) = [i \in 1..k |-> q[i].n]
    <3>1. CASE q # <<>> /\ q[Len(q)] = Sentinel
      <4>1. Numbers(q) = [i \in DOMAIN Front(q) |-> Front(q)[i].n] /\ k = Len(q) - 1
        BY <3>1 DEF Numbers, FramesIn, Last
      <4>2. DOMAIN Front(q) = 1..k /\ \A i \in 1..k : Front(q)[i] = q[i]
        BY <1>1, <4>1 DEF Front
      <4> QED
        BY <4>1, <4>2
    <3>2. CASE ~(q # <<>> /\ q[Len(q)] = Sentinel)
      <4>1. Numbers(q) = [i \in DOMAIN q |-> q[i].n] /\ k = Len(q)
        BY <3>2 DEF Numbers, FramesIn, Last
      <4> QED
        BY <4>1
    <3> QED
      BY <3>1, <3>2
  <2> QED
    BY <1>1, <2>1
<1> PICK p, r, u : p = Numbers(q) /\ r = Reverse(p) /\ u = Reverse(all)
  OBVIOUS
<1>0. k \in Nat /\ m \in Nat /\ k <= m
  BY <1>1
<1>3. p \in Seq(Nat) /\ Len(p) = k /\ \A i \in 1..k : p[i] = all[m - k + i]
  <2>1. \A i \in 1..k : all[m - k + i] \in Nat
    BY <1>1
  <2>2. p = [i \in 1..k |-> all[m - k + i]]
    BY <1>2
  <2> QED
    BY <1>0, <2>1, <2>2
<1>4. ASSUME NEW t \in Seq(Nat), NEW l \in Nat, l = Len(t)
      PROVE  /\ Reverse(t) \in Seq(Nat) /\ Len(Reverse(t)) = l
             /\ \A i \in 1..l : Reverse(t)[i] = t[(l - i) + 1]
  <2>1. Reverse(t) = [i \in 1..l |-> t[(l - i) + 1]]
    BY <1>4 DEF Reverse
  <2>2. ASSUME NEW i \in 1..l PROVE t[(l - i) + 1] \in Nat
    <3>1. (l - i) + 1 \in 1..l
      OBVIOUS
    <3> QED
      BY <1>4, <3>1, ElementOfSeq
  <2> QED
    BY <2>1, <2>2
<1>5. \A i \in 1..k : r[i] = u[i]
  <2> SUFFICES ASSUME NEW i \in 1..k PROVE r[i] = u[i]
    OBVIOUS
  <2>1. (k - i) + 1 \in 1..k /\ i \in 1..m
    BY <1>0
  <2>2. m - k + ((k - i) + 1) = (m - i) + 1
    BY <1>0
  <2>3. r[i] = p[(k - i) + 1] /\ u[i] = all[(m - i) + 1]
    BY <1>0, <1>3, <1>4, <2>1
  <2>4. p[(k - i) + 1] = all[m - k + ((k - i) + 1)]
    BY <1>3, <2>1
  <2> QED
    BY <2>2, <2>3, <2>4
<1>7. r \in Seq(Nat) /\ Len(r) = k /\ u \in Seq(Nat) /\ Len(u) = m
  BY <1>0, <1>3, <1>4
<1>6. SubSeq(r, 1, k) = SubSeq(u, 1, k)
  <2>1. SubSeq(r, 1, k) = [i \in 1..k |-> r[i]]
    BY <1>1, <1>7
  <2>2. SubSeq(u, 1, k) = [i \in 1..k |-> u[i]]
    BY <1>1, <1>7
  <2> QED
    BY <1>5, <2>1, <2>2
<1> QED
  BY <1>1, <1>6, <1>7 DEF IsSuffix, IsPrefix

---------------------------------------------------------------------------
(* The invariant of every behaviour, and what the run checks.              *)

LEMMA CaptureInit == Init => CaptureInv
<1> SUFFICES ASSUME Init PROVE CaptureInv
  OBVIOUS
<1>1. watched = <<>> /\ onsets = {} /\ detector = [vad |-> VadStart, armed |-> FALSE, run |-> 0]
  BY DEF Init
<1>2. Len(watched) = 0 /\ watched \in Seq(BOOLEAN)
  BY <1>1
<1>3. DetectorTypes
  BY <1>1, <1>2 DEF DetectorTypes, VadStart
<1>4. VadInv /\ RunInv
  BY <1>1, <1>2 DEF VadInv, RunInv, VadStart
<1>5. onsets = {i \in 1..Len(watched) : Confirms(watched, i)}
  BY <1>1, <1>2
<1> QED
  BY <1>3, <1>4, <1>5, QueuesInit DEF CaptureInv, DetectorInv

LEMMA CaptureStep == CaptureInv /\ [Next]_vars => CaptureInv'
<1> SUFFICES ASSUME CaptureInv, [Next]_vars PROVE CaptureInv'
  OBVIOUS
<1> USE DEF CaptureInv
<1>1. ASSUME QueuesInv', UNCHANGED <<watched, detector, onsets>>
      PROVE  CaptureInv'
  BY <1>1 DEF DetectorInv, DetectorTypes, VadInv, RunInv
<1>2. CASE \E loud, note \in BOOLEAN : Callback(loud, note)
  BY <1>1, <1>2, CallbackStep DEF Callback, reading
<1>3. CASE Push
  BY <1>1, <1>3, PushStep DEF Push, reading
<1>4. CASE TakeFromMic
  BY <1>1, <1>4, TakeFromMicStep DEF TakeFromMic, reading
<1>5. CASE \E loud \in BOOLEAN : TakeFromFile(loud)
  BY <1>1, <1>5, TakeFromFileStep DEF TakeFromFile, reading
<1>6. CASE EndOfSource
  BY <1>1, <1>6, EndOfSourceStep DEF EndOfSource, reading
<1>7. ASSUME NEW s \in Subs, Receive(s)
      PROVE  CaptureInv'
  <2>1. QueuesInv'
    BY <1>7, ReceiveQueuesStep
  <2>2. CASE Head(queues[s]) # Sentinel /\ s = "barge"
    <3>1. Head(queues[s]) \in Frame /\ Feed(Head(queues[s]))
      <4>1. queues[s] \in Seq(Item) /\ queues[s] # <<>> /\ Feed(Head(queues[s]))
        BY <1>7, <2>2 DEF Receive, QueuesInv, Types
      <4>2. Head(queues[s]) \in Item
        BY <4>1, HeadTailProperties
      <4> QED
        BY <2>2, <4>1, <4>2 DEF Item
    <3> QED
      BY <2>1, <3>1, FeedStep
  <2>3. CASE ~(Head(queues[s]) # Sentinel /\ s = "barge")
    BY <1>1, <1>7, <2>1, <2>3 DEF Receive
  <2> QED
    BY <2>2, <2>3
<1>8. CASE Leave
  <2>1. /\ reader' = [reader EXCEPT !["stt"] = "left"] /\ UNCHANGED <<watched, detector, onsets>>
        /\ UNCHANGED <<live, source, captured, posted, micQ, micDropped, offered, queues, dropped, got>>
    BY <1>8 DEF Leave, mic, fanOut
  <2>2. QueuesInv'
    BY <2>1 DEF QueuesInv, Types, MicInOrder, FansOutInOrder
  <2> QED
    BY <1>1, <2>1, <2>2
<1>9. CASE UNCHANGED vars
  <2>1. QueuesInv' /\ UNCHANGED <<watched, detector, onsets>>
    BY <1>9 DEF vars, mic, fanOut, reading, QueuesInv, Types, MicInOrder, FansOutInOrder
  <2> QED
    BY <1>1, <2>1
<1> QED
  BY <1>2, <1>3, <1>4, <1>5, <1>6, <1>7, <1>8, <1>9 DEF Next

(* What the detector has fired for is what OnsetsAreDebounced says, and    *)
(* what the queues hold is what DropsAreRight says.                        *)
LEMMA CaptureInvSays == CaptureInv => OnsetsAreDebounced /\ DropsAreRight
<1> SUFFICES ASSUME CaptureInv PROVE OnsetsAreDebounced /\ DropsAreRight
  OBVIOUS
<1> USE DEF CaptureInv
<1>1. watched \in Seq(BOOLEAN) /\ DOMAIN watched = 1..Len(watched)
  BY DEF DetectorInv, DetectorTypes
<1>2. OnsetsAreDebounced
  BY <1>1 DEF DetectorInv, Confirms, OnsetsAreDebounced
<1>3. TypeOK
  <2>1. onsets \subseteq DOMAIN watched
    BY <1>1 DEF DetectorInv
  <2> QED
    BY <2>1 DEF QueuesInv, Types, TypeOK
<1>4. LosesOnlyTheOldest
  <2>1. DOMAIN micQ = 1..Len(micQ)
    BY DEF QueuesInv, Types
  <2>2. live /\ source = "open" =>
          /\ \A i \in DOMAIN micQ : micQ[i].n = captured - Len(posted) - Len(micQ) + i
          /\ captured = Len(offered) + Len(micQ) + Len(posted) + micDropped
    BY <2>1 DEF QueuesInv, MicInOrder
  <2>3. \A s \in Subs : IsSuffix(Numbers(queues[s]), offered)
    BY NewestIsSuffix DEF QueuesInv, Types, FansOutInOrder
  <2> QED
    BY <2>2, <2>3 DEF QueuesInv, FansOutInOrder, LosesOnlyTheOldest
<1> QED
  BY <1>2, <1>3, <1>4 DEF DropsAreRight

(* The queues hold what they should and the detector knows what it should, *)
(* always.                                                                 *)
THEOREM SpecCaptureInv == Spec => []CaptureInv
<1> QED
  BY CaptureInit, CaptureStep, PTL DEF Spec

(* Broadcaster._offer(), MicSource._push(): a slow reader, or a slow loop, *)
(* loses the oldest frames only; what it still reads is in order, and each *)
(* loss is counted.                                                        *)
THEOREM CaptureDropsAreRight == Spec => []DropsAreRight
<1> QED
  BY SpecCaptureInv, CaptureInvSays, PTL

(* BargeInDetector.feed(), EnergyVAD.is_speech(): an onset is reported at  *)
(* the frame that makes a run of speech after silence long enough, and at  *)
(* no other, for any hangover and any debounce.                            *)
THEOREM CaptureOnsetsAreDebounced == Spec => []OnsetsAreDebounced
<1> QED
  BY SpecCaptureInv, CaptureInvSays, PTL

---------------------------------------------------------------------------
(***************************************************************************)
(* The stabilizer and the segmenter.                                       *)
(***************************************************************************)

(* Induction on numbers, as the least counterexample. *)
LEMMA LeastNumber ==
  ASSUME NEW T \in SUBSET Nat, T # {}
  PROVE  \E x \in T : \A y \in T : x <= y
<1> DEFINE R == {ss \in Nat \X Nat : ss[1] < ss[2]}
<1>1. IsWellFoundedOn(R, Nat)
  BY NatLessThanWellFounded DEF OpToRel
<1> HIDE DEF R
<1>2. PICK x \in T : \A y \in T : ~(<<y, x>> \in R)
  BY <1>1, WFMin, Zenon
<1>3. \A y \in T : ~(y < x)
  BY <1>2 DEF R
<1> QED
  BY <1>3

(* A bounded set of numbers that is not empty has a greatest one, and it   *)
(* is its Max.                                                             *)
LEMMA MaxOfBounded ==
  ASSUME NEW n \in Nat, NEW T \in SUBSET (0..n), T # {}
  PROVE  Max(T) \in T /\ \A y \in T : y <= Max(T)
<1> DEFINE D == {n - k : k \in T}
<1>1. D \in SUBSET Nat /\ D # {}
  OBVIOUS
<1> HIDE DEF D
<1>2. PICK x \in D : \A y \in D : x <= y
  BY <1>1, LeastNumber
<1>3. PICK k \in T : x = n - k
  BY DEF D
<1>4. \A y \in T : k >= y
  BY <1>2, <1>3 DEF D
<1>5. \E m \in T : \A y \in T : m >= y
  BY <1>4
<1>6. Max(T) \in T /\ \A y \in T : Max(T) >= y
  BY <1>5, Zenon DEF Max
<1> QED
  BY <1>6

---------------------------------------------------------------------------
(* Slices. *)

(* A slice q[lo:hi]. *)
LEMMA Slice ==
  ASSUME NEW S, NEW q \in Seq(S), NEW lo \in Nat, NEW hi \in Nat, hi <= Len(q)
  PROVE  /\ SubSeq(q, lo + 1, hi) \in Seq(S)
         /\ Len(SubSeq(q, lo + 1, hi)) = IF lo < hi THEN hi - lo ELSE 0
         /\ \A i \in 1..Len(SubSeq(q, lo + 1, hi)) :
              SubSeq(q, lo + 1, hi)[i] = q[lo + i] /\ lo + i \in 1..Len(q)
<1>1. Len(q) \in Nat /\ \A i \in 1..Len(q) : q[i] \in S
  BY LenProperties, ElementOfSeq
<1>2. \A i \in lo + 1 .. hi : q[i] \in S
  BY <1>1
<1>3. /\ SubSeq(q, lo + 1, hi) \in Seq(S)
      /\ Len(SubSeq(q, lo + 1, hi)) = IF lo + 1 <= hi THEN hi - (lo + 1) + 1 ELSE 0
      /\ \A i \in 1 .. hi - (lo + 1) + 1 : SubSeq(q, lo + 1, hi)[i] = q[(lo + 1) + i - 1]
  <2>1. lo + 1 \in Int /\ hi \in Int
    OBVIOUS
  <2> QED
    BY <1>2, <2>1, SubSeqProperties
<1>4. Len(SubSeq(q, lo + 1, hi)) = IF lo < hi THEN hi - lo ELSE 0
  BY <1>3
<1>5. ASSUME NEW i \in 1..Len(SubSeq(q, lo + 1, hi))
      PROVE  SubSeq(q, lo + 1, hi)[i] = q[lo + i] /\ lo + i \in 1..Len(q)
  <2>1. lo < hi /\ i \in 1..(hi - lo)
    BY <1>4
  <2>2. i \in 1 .. hi - (lo + 1) + 1 /\ (lo + 1) + i - 1 = lo + i /\ lo + i \in 1..Len(q)
    BY <2>1, <1>1
  <2> QED
    BY <1>3, <2>2
<1> QED
  BY <1>3, <1>4, <1>5

(* A slice of the first of two sequences is one of both together. *)
LEMMA SliceOfConcat ==
  ASSUME NEW S, NEW q \in Seq(S), NEW r \in Seq(S), NEW lo \in Nat, NEW hi \in Nat,
         hi <= Len(q)
  PROVE  SubSeq(q \o r, lo + 1, hi) = SubSeq(q, lo + 1, hi)
<1>1. /\ q \o r \in Seq(S) /\ Len(q \o r) = Len(q) + Len(r)
      /\ \A i \in 1..Len(q) + Len(r) : (q \o r)[i] = IF i <= Len(q) THEN q[i] ELSE r[i - Len(q)]
  BY ConcatProperties
<1>2. Len(q) \in Nat /\ Len(r) \in Nat
  BY LenProperties
<1>3. hi <= Len(q \o r)
  BY <1>1, <1>2
<1> DEFINE a == SubSeq(q \o r, lo + 1, hi)
           b == SubSeq(q, lo + 1, hi)
<1>4. /\ a \in Seq(S) /\ Len(a) = (IF lo < hi THEN hi - lo ELSE 0)
      /\ \A i \in 1..Len(a) : a[i] = (q \o r)[lo + i]
  BY <1>1, <1>3, Slice
<1>5. /\ b \in Seq(S) /\ Len(b) = (IF lo < hi THEN hi - lo ELSE 0)
      /\ \A i \in 1..Len(b) : b[i] = q[lo + i]
  BY Slice
<1> HIDE DEF a, b
<1>6. ASSUME NEW i \in 1..Len(a) PROVE a[i] = b[i]
  <2>1. lo + i \in 1..Len(q) + Len(r) /\ lo + i <= Len(q)
    BY <1>4, <1>2
  <2>2. (q \o r)[lo + i] = q[lo + i]
    BY <1>1, <2>1
  <2> QED
    BY <2>2, <1>4, <1>5
<1>7. a = b
  BY <1>4, <1>5, <1>6, SeqEqual
<1> QED
  BY <1>7 DEF a, b

(* The slice that reaches the end grows with the sequence. *)
LEMMA SliceAppends ==
  ASSUME NEW S, NEW q \in Seq(S), NEW e \in S, NEW lo \in Nat, lo <= Len(q)
  PROVE  SubSeq(Append(q, e), lo + 1, Len(q) + 1) = Append(SubSeq(q, lo + 1, Len(q)), e)
<1>1. Len(q) \in Nat
  BY LenProperties
<1>2. /\ Append(q, e) \in Seq(S) /\ Len(Append(q, e)) = Len(q) + 1
      /\ \A i \in 1..Len(q) : Append(q, e)[i] = q[i]
      /\ Append(q, e)[Len(q) + 1] = e
  BY AppendProperties
<1> DEFINE a == SubSeq(Append(q, e), lo + 1, Len(q) + 1)
           b == SubSeq(q, lo + 1, Len(q))
<1>3. /\ a \in Seq(S) /\ Len(a) = Len(q) + 1 - lo
      /\ \A i \in 1..Len(a) : a[i] = Append(q, e)[lo + i]
  <2>1. Len(q) + 1 \in Nat /\ Len(q) + 1 <= Len(Append(q, e)) /\ lo < Len(q) + 1
    BY <1>1, <1>2
  <2> QED
    BY <1>2, <2>1, Slice
<1>4. /\ b \in Seq(S) /\ Len(b) = Len(q) - lo
      /\ \A i \in 1..Len(b) : b[i] = q[lo + i]
  <2>1. /\ b \in Seq(S) /\ Len(b) = (IF lo < Len(q) THEN Len(q) - lo ELSE 0)
        /\ \A i \in 1..Len(b) : b[i] = q[lo + i]
    BY <1>1, Slice
  <2> QED
    BY <2>1, <1>1
<1> HIDE DEF a, b
<1>5. /\ Append(b, e) \in Seq(S) /\ Len(Append(b, e)) = Len(b) + 1
      /\ \A i \in 1..Len(b) : Append(b, e)[i] = b[i]
      /\ Append(b, e)[Len(b) + 1] = e
  BY <1>4, AppendProperties
<1>6. Len(a) = Len(Append(b, e))
  BY <1>1, <1>3, <1>4, <1>5
<1>7. ASSUME NEW i \in 1..Len(a) PROVE a[i] = Append(b, e)[i]
  <2>1. CASE i <= Len(b)
    <3>1. i \in 1..Len(b) /\ lo + i \in 1..Len(q)
      BY <2>1, <1>4, <1>1
    <3> QED
      BY <3>1, <1>2, <1>3, <1>4, <1>5
  <2>2. CASE ~(i <= Len(b))
    <3>1. i = Len(b) + 1 /\ lo + i = Len(q) + 1
      BY <2>2, <1>3, <1>4, <1>1
    <3> QED
      BY <3>1, <1>2, <1>3, <1>5
  <2> QED
    BY <2>1, <2>2
<1>8. a = Append(b, e)
  BY <1>3, <1>5, <1>6, <1>7, SeqEqual
<1> QED
  BY <1>8 DEF a, b

---------------------------------------------------------------------------
(* The segmenter. *)

Piece   == [tokens : Seq(Token), lo : Nat, hi : Nat, index : Nat]
Stamped == [tokens : Seq(Token), lo : Nat, hi : Nat, index : Nat, context : Seq(Token)]
Rest    == [open : Seq(Token), history : Seq(Token), consumed : Nat, index : Nat]
Feeding == [open : Seq(Token), history : Seq(Token), consumed : Nat, index : Nat,
            closed : Seq(Piece)]

(* pieces, numbered from k on, cut the words after the first from up to to.*)
Cut(pieces, words, k, from, to) ==
  /\ pieces = <<>> => from = to
  /\ pieces # <<>> => pieces[Len(pieces)].hi = to
  /\ \A i \in 1..Len(pieces) :
       /\ pieces[i].index = k + i - 1
       /\ pieces[i].lo = (IF i = 1 THEN from ELSE pieces[i - 1].hi)
       /\ pieces[i].lo < pieces[i].hi /\ pieces[i].hi <= Len(words)
       /\ pieces[i].tokens = SubSeq(words, pieces[i].lo + 1, pieces[i].hi)
       /\ Unclosed(Front(pieces[i].tokens))

(* The first n pieces end where a segment has to. *)
AllClose(pieces, n) == \A i \in 1..n : Closes(pieces[i].tokens)

(* What a segmenter holds that was given words in one utterance, of which  *)
(* the first from were cut, into k pieces, before.                         *)
Fed(s, words, k, from) ==
  /\ s.history = words
  /\ s.consumed <= Len(words)
  /\ s.open = SubSeq(words, s.consumed + 1, Len(words))
  /\ Unclosed(s.open)
  /\ s.index = k + Len(s.closed)
  /\ Cut(s.closed, words, k, from, s.consumed)
  /\ AllClose(s.closed, Len(s.closed))

(* A cut stays one when more words follow. *)
LEMMA CutOfMore ==
  ASSUME NEW R, \A p \in R : p.lo \in Nat /\ p.hi \in Nat, NEW pieces \in Seq(R),
         NEW words \in Seq(Token), NEW more \in Seq(Token),
         NEW k \in Nat, NEW from \in Nat, NEW to \in Nat,
         Cut(pieces, words, k, from, to)
  PROVE  Cut(pieces, words \o more, k, from, to)
<1>1. /\ Len(words) \in Nat /\ Len(more) \in Nat /\ Len(words \o more) = Len(words) + Len(more)
      /\ words \o more \in Seq(Token)
  BY LenProperties, ConcatProperties
<1>2. \A i \in 1..Len(pieces) : pieces[i].lo \in Nat /\ pieces[i].hi \in Nat
  <2> TAKE i \in 1..Len(pieces)
  <2>1. pieces[i] \in R
    BY ElementOfSeq
  <2> QED
    BY <2>1
<1>3. ASSUME NEW i \in 1..Len(pieces)
      PROVE  /\ pieces[i].hi <= Len(words \o more)
             /\ pieces[i].tokens = SubSeq(words \o more, pieces[i].lo + 1, pieces[i].hi)
  <2>1. /\ pieces[i].hi <= Len(words)
        /\ pieces[i].tokens = SubSeq(words, pieces[i].lo + 1, pieces[i].hi)
    BY DEF Cut
  <2>2. \A lo, hi \in Nat : hi <= Len(words) =>
          SubSeq(words \o more, lo + 1, hi) = SubSeq(words, lo + 1, hi)
    BY SliceOfConcat
  <2>3. pieces[i].hi <= Len(words \o more)
    BY <1>1, <1>2, <2>1
  <2> QED
    BY <1>2, <2>1, <2>2, <2>3
<1> QED
  BY <1>3 DEF Cut

(* The next piece goes on where the last one ended. *)
LEMMA CutOneMore ==
  ASSUME NEW pieces \in Seq(Piece), NEW words \in Seq(Token),
         NEW k \in Nat, NEW from \in Nat, NEW mid \in Nat, NEW piece \in Piece,
         Cut(pieces, words, k, from, mid),
         piece.index = k + Len(pieces), piece.lo = mid, mid < piece.hi,
         piece.hi <= Len(words), piece.tokens = SubSeq(words, mid + 1, piece.hi),
         Unclosed(Front(piece.tokens))
  PROVE  Cut(Append(pieces, piece), words, k, from, piece.hi)
<1> DEFINE more == Append(pieces, piece)
<1>1. /\ more \in Seq(Piece) /\ more # <<>> /\ Len(more) = Len(pieces) + 1
      /\ \A i \in 1..Len(pieces) : more[i] = pieces[i]
      /\ more[Len(pieces) + 1] = piece
  BY AppendProperties
<1>2. Len(pieces) \in Nat
  BY LenProperties
<1> HIDE DEF more
<1>3. more[Len(more)].hi = piece.hi
  BY <1>1
<1>4. ASSUME NEW i \in 1..Len(more), i <= Len(pieces)
      PROVE  /\ more[i].index = k + i - 1
             /\ more[i].lo = (IF i = 1 THEN from ELSE more[i - 1].hi)
             /\ more[i].lo < more[i].hi /\ more[i].hi <= Len(words)
             /\ more[i].tokens = SubSeq(words, more[i].lo + 1, more[i].hi)
             /\ Unclosed(Front(more[i].tokens))
  <2>1. i \in 1..Len(pieces) /\ (i # 1 => i - 1 \in 1..Len(pieces))
    BY <1>4, <1>1, <1>2
  <2>2. more[i] = pieces[i] /\ (i # 1 => more[i - 1] = pieces[i - 1])
    BY <2>1, <1>1
  <2>3. /\ pieces[i].index = k + i - 1
        /\ pieces[i].lo = (IF i = 1 THEN from ELSE pieces[i - 1].hi)
        /\ pieces[i].lo < pieces[i].hi /\ pieces[i].hi <= Len(words)
        /\ pieces[i].tokens = SubSeq(words, pieces[i].lo + 1, pieces[i].hi)
        /\ Unclosed(Front(pieces[i].tokens))
    BY <2>1 DEF Cut
  <2> QED
    BY <2>2, <2>3
<1>5. ASSUME NEW i \in 1..Len(more), ~(i <= Len(pieces))
      PROVE  /\ more[i].index = k + i - 1
             /\ more[i].lo = (IF i = 1 THEN from ELSE more[i - 1].hi)
             /\ more[i].lo < more[i].hi /\ more[i].hi <= Len(words)
             /\ more[i].tokens = SubSeq(words, more[i].lo + 1, more[i].hi)
             /\ Unclosed(Front(more[i].tokens))
  <2>1. i = Len(pieces) + 1 /\ more[i] = piece
    BY <1>5, <1>1, <1>2
  <2>2. mid = (IF i = 1 THEN from ELSE more[i - 1].hi)
    <3>1. CASE pieces = <<>>
      BY <3>1, <2>1 DEF Cut
    <3>2. CASE pieces # <<>>
      <4>1. Len(pieces) # 0
        BY <3>2, EmptySeq
      <4>2. i # 1 /\ i - 1 = Len(pieces) /\ Len(pieces) \in 1..Len(pieces)
        BY <4>1, <2>1, <1>2
      <4>3. more[i - 1] = pieces[Len(pieces)]
        BY <4>2, <1>1
      <4> QED
        BY <3>2, <4>2, <4>3 DEF Cut
    <3> QED
      BY <3>1, <3>2
  <2>3. piece.index = k + i - 1
    BY <2>1, <1>2
  <2> QED
    BY <2>1, <2>2, <2>3
<1>6. Cut(more, words, k, from, piece.hi)
  BY <1>1, <1>3, <1>4, <1>5 DEF Cut
<1> QED
  BY <1>6 DEF more

(* What is there before and at the end of a sequence that grew by one. *)
LEMMA FrontOfAppend ==
  ASSUME NEW S, NEW q \in Seq(S), NEW e \in S
  PROVE  Front(Append(q, e)) = q /\ Last(Append(q, e)) = e
<1>1. /\ Append(q, e) \in Seq(S) /\ Len(Append(q, e)) = Len(q) + 1
      /\ \A i \in 1..Len(q) : Append(q, e)[i] = q[i]
      /\ Append(q, e)[Len(q) + 1] = e
  BY AppendProperties
<1>2. Len(q) \in Nat /\ 0 \in Nat
  BY LenProperties
<1> DEFINE a == SubSeq(Append(q, e), 0 + 1, Len(q))
<1>3. /\ a \in Seq(S) /\ Len(a) = (IF 0 < Len(q) THEN Len(q) - 0 ELSE 0)
      /\ \A i \in 1..Len(a) : a[i] = Append(q, e)[0 + i]
  <2>1. Len(q) <= Len(Append(q, e))
    BY <1>1, <1>2
  <2> QED
    BY <1>1, <1>2, <2>1, Slice
<1>4. Len(Append(q, e)) - 1 = Len(q) /\ 0 + 1 = 1
  BY <1>1, <1>2
<1>5. Front(Append(q, e)) = a
  BY <1>4 DEF Front
<1> HIDE DEF a
<1>6. Len(a) = Len(q) /\ \A i \in 1..Len(a) : a[i] = q[i]
  BY <1>1, <1>2, <1>3
<1>7. a = q
  BY <1>3, <1>6, SeqEqual
<1> QED
  BY <1>1, <1>5, <1>7 DEF Last

(* _make_segment() cuts off what is open. *)
LEMMA SegmentMade ==
  ASSUME NEW g \in Feeding, NEW words \in Seq(Token), NEW k \in Nat, NEW from \in Nat,
         g.consumed < Len(words),
         g.open = SubSeq(words, g.consumed + 1, Len(words)),
         Unclosed(Front(g.open)),
         g.index = k + Len(g.closed),
         Cut(g.closed, words, k, from, g.consumed)
  PROVE  /\ MakeSegment(g) \in Feeding
         /\ MakeSegment(g).history = g.history
         /\ MakeSegment(g).consumed = Len(words)
         /\ MakeSegment(g).open = <<>>
         /\ MakeSegment(g).index = k + Len(MakeSegment(g).closed)
         /\ Cut(MakeSegment(g).closed, words, k, from, Len(words))
         /\ Len(MakeSegment(g).closed) = Len(g.closed) + 1
         /\ \A i \in 1..Len(g.closed) : MakeSegment(g).closed[i] = g.closed[i]
         /\ MakeSegment(g).closed[Len(g.closed) + 1].tokens = g.open
<1> DEFINE hi == g.consumed + Len(g.open)
           piece == [tokens |-> g.open, lo |-> g.consumed, hi |-> hi, index |-> g.index]
           m == MakeSegment(g)
<1>1. /\ g.open \in Seq(Token) /\ g.history \in Seq(Token) /\ g.consumed \in Nat
      /\ g.index \in Nat /\ g.closed \in Seq(Piece)
  BY DEF Feeding
<1>2. Len(words) \in Nat /\ Len(g.closed) \in Nat
  BY <1>1, LenProperties
<1>3. Len(g.open) = Len(words) - g.consumed
  <2>1. \A lo, top \in Nat : top <= Len(words) =>
          Len(SubSeq(words, lo + 1, top)) = IF lo < top THEN top - lo ELSE 0
    BY Slice
  <2>2. Len(SubSeq(words, g.consumed + 1, Len(words)))
          = IF g.consumed < Len(words) THEN Len(words) - g.consumed ELSE 0
    BY <1>1, <1>2, <2>1
  <2> QED
    BY <2>2, Zenon
<1>4. hi = Len(words) /\ hi \in Nat
  <2>1. \A x, y \in Nat : x + (y - x) = y
    OBVIOUS
  <2>2. g.consumed + (Len(words) - g.consumed) = Len(words)
    BY <1>1, <1>2, <2>1, Zenon
  <2>3. g.consumed + Len(g.open) = Len(words)
    BY <1>3, <2>2, Zenon
  <2> QED
    BY <1>2, <2>3
<1>5. /\ m.open = <<>> /\ m.history = g.history /\ m.consumed = hi /\ m.index = g.index + 1
      /\ m.closed = Append(g.closed, piece)
  BY DEF MakeSegment, Feeding
<1>6. piece \in Piece
  BY <1>1, <1>4 DEF Piece
<1>7. /\ piece.index = g.index /\ piece.lo = g.consumed /\ piece.hi = hi /\ piece.tokens = g.open
  OBVIOUS
<1>12. /\ <<>> \in Seq(Token) /\ g.index + 1 \in Nat
       /\ Append(g.closed, piece) \in Seq(Piece)
  <2> HIDE DEF piece
  <2>1. <<>> \in Seq(Token)
    OBVIOUS
  <2>2. Append(g.closed, piece) \in Seq(Piece)
    BY <1>1, <1>6, AppendProperties
  <2> QED
    BY <1>1, <2>1, <2>2
<1>9. m \in Feeding
  <2> DEFINE pieces == Append(g.closed, piece)
  <2>1. m = [g EXCEPT !.open = <<>>, !.consumed = hi, !.index = @ + 1, !.closed = pieces]
    BY DEF MakeSegment
  <2> HIDE DEF m, pieces, hi, piece
  <2> QED
    BY <2>1, <1>1, <1>4, <1>12 DEF Feeding, pieces
<1> HIDE DEF m, piece, hi
<1>8. /\ m.closed \in Seq(Piece) /\ Len(m.closed) = Len(g.closed) + 1
      /\ \A i \in 1..Len(g.closed) : m.closed[i] = g.closed[i]
      /\ m.closed[Len(g.closed) + 1] = piece
  BY <1>1, <1>5, <1>6, AppendProperties
<1>10. m.index = k + Len(m.closed)
  BY <1>2, <1>5, <1>8
<1>11. Cut(m.closed, words, k, from, hi)
  <2>1. piece.hi <= Len(words)
    BY <1>7, <1>4, <1>2
  <2>2. piece.index = k + Len(g.closed) /\ g.consumed < piece.hi
    BY <1>4, <1>7
  <2>3. piece.tokens = SubSeq(words, g.consumed + 1, piece.hi)
    BY <1>4, <1>7
  <2>4. piece.lo = g.consumed /\ Unclosed(Front(piece.tokens))
    BY <1>7
  <2>5. g.closed \in Seq(Piece) /\ g.consumed \in Nat
    BY <1>1
  <2>6. Cut(Append(g.closed, piece), words, k, from, piece.hi)
    BY <1>6, <2>1, <2>2, <2>3, <2>4, <2>5, CutOneMore
  <2> QED
    BY <2>6, <1>5, <1>7
<1> QED
  BY <1>4, <1>5, <1>7, <1>8, <1>9, <1>10, <1>11 DEF m

(* One turn of feed()'s loop: the token is open, or closes the segment     *)
(* by a terminal mark or as the last that fits.                            *)
LEMMA TokenIsFed ==
  ASSUME NEW s \in Feeding, NEW words \in Seq(Token), NEW k \in Nat, NEW from \in Nat,
         NEW tok \in Token, Fed(s, words, k, from)
  PROVE  FeedToken(s, tok) \in Feeding /\ Fed(FeedToken(s, tok), Append(words, tok), k, from)
<1> DEFINE g == [s EXCEPT !.history = Append(@, tok), !.open = Append(@, tok)]
           all == Append(words, tok)
<1>1. /\ s.open \in Seq(Token) /\ s.history \in Seq(Token) /\ s.consumed \in Nat
      /\ s.index \in Nat /\ s.closed \in Seq(Piece) /\ Len(words) \in Nat
  BY LenProperties DEF Feeding
<1>2. /\ s.history = words /\ s.consumed <= Len(words)
      /\ s.open = SubSeq(words, s.consumed + 1, Len(words))
      /\ Unclosed(s.open) /\ s.index = k + Len(s.closed)
      /\ Cut(s.closed, words, k, from, s.consumed)
      /\ AllClose(s.closed, Len(s.closed))
  BY DEF Fed
<1>3. /\ g.history = Append(s.history, tok) /\ g.open = Append(s.open, tok)
      /\ g.consumed = s.consumed /\ g.index = s.index /\ g.closed = s.closed
  BY DEF Feeding
<1>4. /\ all \in Seq(Token) /\ Len(all) = Len(words) + 1
  BY AppendProperties
<1>5. /\ g.open \in Seq(Token) /\ Len(g.open) = Len(s.open) + 1
      /\ \A i \in 1..Len(s.open) : g.open[i] = s.open[i]
      /\ g.open[Len(s.open) + 1] = tok
  BY <1>1, <1>3, AppendProperties
<1>6. FeedToken(s, tok) = IF tok.ends \/ Full(g.open) THEN MakeSegment(g) ELSE g
  BY DEF FeedToken
<1>7. g.open = SubSeq(all, s.consumed + 1, Len(words) + 1)
  <2>1. SubSeq(all, s.consumed + 1, Len(words) + 1)
          = Append(SubSeq(words, s.consumed + 1, Len(words)), tok)
    BY <1>1, <1>2, SliceAppends
  <2> HIDE DEF all, g
  <2> QED
    BY <2>1, <1>2, <1>3
<1>8. Cut(s.closed, all, k, from, s.consumed)
  <2>1. all = words \o <<tok>> /\ <<tok>> \in Seq(Token)
    BY AppendIsConcat
  <2> HIDE DEF all
  <2>2. \A p \in Piece : p.lo \in Nat /\ p.hi \in Nat
    BY DEF Piece
  <2>3. \A q \in Seq(Piece), r \in Seq(Token), to \in Nat :
          Cut(q, words, k, from, to) => Cut(q, words \o r, k, from, to)
    BY <2>2, CutOfMore
  <2> QED
    BY <2>1, <2>3, <1>1, <1>2
<1>9. Front(g.open) = s.open /\ Last(g.open) = tok
  BY <1>1, <1>3, FrontOfAppend
<1>10. g.history = all
  BY <1>2, <1>3
<1>11. g \in Feeding
  <2>1. Append(s.history, tok) \in Seq(Token) /\ Append(s.open, tok) \in Seq(Token)
    BY <1>1, AppendProperties
  <2> QED
    BY <2>1, <1>1 DEF Feeding
<1> HIDE DEF g, all
<1>12. Len(s.open) \in Nat /\ Len(s.closed) \in Nat
  BY <1>1, LenProperties
<1>13. MaxSegment \in Nat \ {0} /\ Len(s.open) < MaxSegment
       /\ \A i \in 1..Len(s.open) : ~ s.open[i].ends
  <2>1. DOMAIN s.open = 1..Len(s.open)
    BY <1>1, LenProperties
  <2> QED
    BY <1>2, <2>1, SizeAssumption DEF Unclosed
<1>14. CASE tok.ends \/ Full(g.open)
  <2>1. FeedToken(s, tok) = MakeSegment(g)
    BY <1>6, <1>14
  <2>2. g.consumed < Len(all) /\ Unclosed(Front(g.open))
    <3>1. g.consumed < Len(all)
      BY <1>1, <1>2, <1>3, <1>4
    <3> QED
      BY <3>1, <1>2, <1>9
  <2> DEFINE m == MakeSegment(g)
  <2>3. /\ m \in Feeding /\ m.history = g.history
        /\ m.consumed = Len(all) /\ m.open = <<>>
        /\ m.index = k + Len(m.closed)
        /\ Cut(m.closed, all, k, from, Len(all))
        /\ Len(m.closed) = Len(g.closed) + 1
        /\ \A i \in 1..Len(g.closed) : m.closed[i] = g.closed[i]
        /\ m.closed[Len(g.closed) + 1].tokens = g.open
    <3>1. g.open = SubSeq(all, g.consumed + 1, Len(all))
      BY <1>3, <1>4, <1>7
    <3>2. g.index = k + Len(g.closed) /\ Cut(g.closed, all, k, from, g.consumed)
      BY <1>2, <1>3, <1>8
    <3> QED
      BY <1>4, <1>11, <2>2, <3>1, <3>2, SegmentMade
  <2> HIDE DEF m
  <2>4. Closes(g.open)
    <3>1. CASE tok.ends
      BY <3>1, <1>9 DEF Closes
    <3>2. CASE Full(g.open)
      <4>1. Len(g.open) = MaxSegment
        BY <3>2, <1>5, <1>12, <1>13 DEF Full
      <4> QED
        BY <4>1 DEF Closes
    <3> QED
      BY <3>1, <3>2, <1>14
  <2>5. AllClose(m.closed, Len(m.closed))
    <3> SUFFICES ASSUME NEW i \in 1..Len(m.closed) PROVE Closes(m.closed[i].tokens)
      BY DEF AllClose
    <3>1. CASE i <= Len(s.closed)
      <4>1. i \in 1..Len(s.closed) /\ m.closed[i] = s.closed[i]
        BY <3>1, <2>3, <1>3, <1>12
      <4> QED
        BY <4>1, <1>2 DEF AllClose
    <3>2. CASE ~(i <= Len(s.closed))
      <4>1. i = Len(g.closed) + 1
        BY <3>2, <2>3, <1>3, <1>12
      <4> QED
        BY <4>1, <2>3, <2>4
    <3> QED
      BY <3>1, <3>2
  <2>6. m.open = SubSeq(all, m.consumed + 1, Len(all)) /\ m.consumed <= Len(all)
    <3>1. Len(all) \in Nat
      BY <1>4, LenProperties
    <3>2. Len(all) + 1 \in Int /\ Len(all) \in Int /\ Len(all) < Len(all) + 1
      BY <3>1
    <3>3. SubSeq(all, Len(all) + 1, Len(all)) = <<>>
      BY <3>2, SubSeqEmpty
    <3> QED
      BY <3>1, <3>3, <2>3
  <2>7. Unclosed(m.open)
    <3>1. m.open = <<>> /\ Len(<<>>) = 0 /\ DOMAIN <<>> = {}
      BY <2>3
    <3> QED
      BY <3>1, <1>13 DEF Unclosed
  <2>8. Fed(m, all, k, from)
    BY <2>3, <2>5, <2>6, <2>7, <1>10 DEF Fed
  <2> QED
    BY <2>1, <2>3, <2>8 DEF m, all
<1>15. CASE ~(tok.ends \/ Full(g.open))
  <2>1. FeedToken(s, tok) = g
    BY <1>6, <1>15
  <2>2. Unclosed(g.open)
    <3>1. Len(g.open) < MaxSegment
      <4>1. Len(g.open) \in Nat /\ ~(Len(g.open) >= MaxSegment)
        BY <1>15, <1>5, LenProperties DEF Full
      <4> QED
        BY <4>1, <1>13
    <3>2. ASSUME NEW i \in DOMAIN g.open PROVE ~ g.open[i].ends
      <4>1. i \in 1..Len(g.open)
        BY <1>5, LenProperties
      <4>2. CASE i <= Len(s.open)
        <5>1. i \in 1..Len(s.open)
          BY <4>1, <4>2, <1>12
        <5> QED
          BY <5>1, <1>5, <1>13
      <4>3. CASE ~(i <= Len(s.open))
        <5>1. i = Len(s.open) + 1
          BY <4>1, <4>3, <1>5, <1>12
        <5> QED
          BY <5>1, <1>5, <1>15
      <4> QED
        BY <4>2, <4>3
    <3> QED
      BY <3>1, <3>2 DEF Unclosed
  <2>3. g.open = SubSeq(all, g.consumed + 1, Len(all)) /\ g.consumed <= Len(all)
    <3>1. g.consumed <= Len(all)
      BY <1>1, <1>2, <1>3, <1>4
    <3> QED
      BY <3>1, <1>3, <1>4, <1>7
  <2>4. Fed(g, all, k, from)
    BY <1>2, <1>3, <1>8, <1>10, <2>2, <2>3 DEF Fed
  <2> QED
    BY <2>1, <2>4, <1>11 DEF all
<1> QED
  BY <1>14, <1>15

(* A function that does one step after the other exists. *)
RunOf(run, s, tokens, top) ==
  run = [n \in 0..top |-> IF n = 0 THEN s ELSE FeedToken(run[n - 1], tokens[n])]

LEMMA RunExists ==
  ASSUME NEW s, NEW tokens, NEW top \in Nat
  PROVE  \E run : RunOf(run, s, tokens, top)
<1> DEFINE IsRun(run, m) ==
             run = [n \in 0..m |-> IF n = 0 THEN s ELSE FeedToken(run[n - 1], tokens[n])]
           Bad == {m \in Nat : ~ \E run : IsRun(run, m)}
<1>1. SUFFICES Bad = {}
  <2>1. top \notin Bad => \E run : IsRun(run, top)
    OBVIOUS
  <2> QED
    BY <2>1, <1>1, Zenon DEF RunOf
<1>2. SUFFICES ASSUME Bad # {} PROVE FALSE
  OBVIOUS
<1>3. Bad \in SUBSET Nat
  OBVIOUS
<1>4. PICK m \in Bad : \A y \in Bad : m <= y
  <2> HIDE DEF Bad
  <2> QED
    BY <1>2, <1>3, LeastNumber
<1>5. m \in Nat /\ ~ \E run : IsRun(run, m)
  OBVIOUS
<1>6. CASE m = 0
  <2> DEFINE f == [n \in 0..0 |-> s]
  <2>1. f = [n \in 0..0 |-> IF n = 0 THEN s ELSE FeedToken(f[n - 1], tokens[n])]
    <3>1. \A n \in 0..0 : n = 0
      OBVIOUS
    <3> QED
      BY <3>1
  <2>2. IsRun(f, m)
    BY <2>1, <1>6
  <2> HIDE DEF f, IsRun
  <2> QED
    BY <2>2, <1>5
<1>7. CASE m # 0
  <2>1. m - 1 \in Nat /\ ~(m <= m - 1)
    BY <1>5, <1>7
  <2>2. m - 1 \notin Bad
    BY <2>1, <1>4
  <2>3. PICK f : IsRun(f, m - 1)
    BY <2>1, <2>2
  <2>4. /\ DOMAIN f = 0..(m - 1)
        /\ \A n \in 0..(m - 1) :
             f[n] = IF n = 0 THEN s ELSE FeedToken(f[n - 1], tokens[n])
    BY <2>3
  <2> HIDE DEF Bad, IsRun
  <2> DEFINE g == [n \in 0..m |-> IF n = m THEN FeedToken(f[m - 1], tokens[m]) ELSE f[n]]
             h == [n \in 0..m |-> IF n = 0 THEN s ELSE FeedToken(g[n - 1], tokens[n])]
  <2>5. ASSUME NEW n \in 0..m PROVE g[n] = h[n]
    <3>1. h[n] = IF n = 0 THEN s ELSE FeedToken(g[n - 1], tokens[n])
      OBVIOUS
    <3>2. CASE n = m
      <4>1. n # 0 /\ m - 1 \in 0..m /\ m - 1 # m
        BY <3>2, <1>5, <1>7
      <4>2. g[n] = FeedToken(f[m - 1], tokens[m]) /\ g[m - 1] = f[m - 1]
        BY <3>2, <4>1
      <4> HIDE DEF g, h
      <4> QED
        BY <3>1, <3>2, <4>1, <4>2
    <3>3. CASE n # m
      <4>1. n \in 0..(m - 1)
        BY <3>3, <1>5
      <4>2. g[n] = f[n]
        BY <3>3
      <4>3. CASE n = 0
        <5> HIDE DEF g, h
        <5> QED
          BY <4>1, <4>2, <4>3, <3>1, <2>4
      <4>4. CASE n # 0
        <5>1. n - 1 \in 0..m /\ n - 1 # m
          BY <4>1, <4>4, <1>5
        <5>2. g[n - 1] = f[n - 1]
          BY <5>1
        <5> HIDE DEF g, h
        <5> QED
          BY <4>1, <4>2, <4>4, <5>2, <3>1, <2>4
      <4> QED
        BY <4>3, <4>4
    <3> QED
      BY <3>2, <3>3
  <2>6. DOMAIN g = 0..m /\ g = [n \in 0..m |-> g[n]] /\ h = [n \in 0..m |-> h[n]]
    OBVIOUS
  <2>7. g = h
    <3> HIDE DEF g, h
    <3> QED
      BY <2>5, <2>6
  <2>8. IsRun(g, m)
    <3> HIDE DEF g
    <3> QED
      BY <2>7 DEF h, IsRun
  <2> HIDE DEF g
  <2> QED
    BY <2>8, <1>5
<1> QED
  BY <1>6, <1>7

(* FeedTokens takes the tokens one by one. *)
LEMMA FedOneByOne ==
  ASSUME NEW s, NEW tokens \in Seq(Token)
  PROVE  \E run : /\ run[0] = s
                  /\ \A n \in 1..Len(tokens) : run[n] = FeedToken(run[n - 1], tokens[n])
                  /\ FeedTokens(s, tokens) = run[Len(tokens)]
<1>1. Len(tokens) \in Nat
  BY LenProperties
<1> DEFINE run ==
      CHOOSE run : run = [n \in 0..Len(tokens) |->
                            IF n = 0 THEN s ELSE FeedToken(run[n - 1], tokens[n])]
<1>2. RunOf(run, s, tokens, Len(tokens))
  <2>1. \E r : RunOf(r, s, tokens, Len(tokens))
    BY <1>1, RunExists
  <2> QED
    BY <2>1, Zenon DEF RunOf
<1>3. FeedTokens(s, tokens) = run[Len(tokens)]
  BY Zenon DEF FeedTokens
<1> HIDE DEF run
<1>4. 0 \in 0..Len(tokens) /\ \A n \in 1..Len(tokens) : n \in 0..Len(tokens) /\ n # 0
  BY <1>1
<1>5. \A n \in 0..Len(tokens) :
        run[n] = IF n = 0 THEN s ELSE FeedToken(run[n - 1], tokens[n])
  BY <1>2 DEF RunOf
<1>6. run[0] = s /\ \A n \in 1..Len(tokens) : run[n] = FeedToken(run[n - 1], tokens[n])
  BY <1>4, <1>5
<1> QED
  BY <1>3, <1>6

(* The first n of the new tokens, behind the words that were there. *)
LEMMA PrefixGrows ==
  ASSUME NEW words \in Seq(Token), NEW tokens \in Seq(Token)
  PROVE  /\ words \o SubSeq(tokens, 1, 0) = words
         /\ words \o SubSeq(tokens, 1, Len(tokens)) = words \o tokens
         /\ \A n \in 1..Len(tokens) :
              /\ words \o SubSeq(tokens, 1, n - 1) \in Seq(Token)
              /\ words \o SubSeq(tokens, 1, n)
                   = Append(words \o SubSeq(tokens, 1, n - 1), tokens[n])
<1>1. Len(tokens) \in Nat
  BY LenProperties
<1>2. SubSeq(tokens, 1, 0) = <<>>
  BY SubSeqEmpty
<1>3. words \o SubSeq(tokens, 1, 0) = words
  BY <1>2, ConcatEmptySeq
<1>4. SubSeq(tokens, 1, Len(tokens)) = tokens
  BY SubSeqFull
<1>5. ASSUME NEW n \in 1..Len(tokens)
      PROVE  /\ words \o SubSeq(tokens, 1, n - 1) \in Seq(Token)
             /\ words \o SubSeq(tokens, 1, n)
                  = Append(words \o SubSeq(tokens, 1, n - 1), tokens[n])
  <2> DEFINE front == SubSeq(tokens, 1, n - 1)
  <2>1. tokens[n] \in Token
    BY ElementOfSeq
  <2>2. front \in Seq(Token)
    <3>1. n - 1 \in Nat /\ n - 1 <= Len(tokens) /\ 0 + 1 = 1 /\ 0 \in Nat
      BY <1>1
    <3> QED
      BY <3>1, Slice
  <2>3. SubSeq(tokens, 1, n) = front \o <<tokens[n]>>
    <3>1. 1 \in 1..Len(tokens) /\ n \in 1..Len(tokens)
      BY <1>1
    <3> QED
      BY <3>1, SubSeqRecursiveSecond
  <2> HIDE DEF front
  <2>4. words \o front \in Seq(Token) /\ <<tokens[n]>> \in Seq(Token)
    BY <2>1, <2>2, ConcatProperties
  <2>5. words \o (front \o <<tokens[n]>>) = (words \o front) \o <<tokens[n]>>
    BY <2>2, <2>4, ConcatAssociative
  <2>6. (words \o front) \o <<tokens[n]>> = Append(words \o front, tokens[n])
    BY <2>1, <2>4, AppendIsConcat
  <2> QED
    BY <2>3, <2>4, <2>5, <2>6 DEF front
<1> QED
  BY <1>3, <1>4, <1>5

(* feed() of any number of tokens, by the least one after which it would   *)
(* be wrong.                                                               *)
LEMMA TokensAreFed ==
  ASSUME NEW s \in Feeding, NEW words \in Seq(Token), NEW tokens \in Seq(Token),
         NEW k \in Nat, NEW from \in Nat, Fed(s, words, k, from)
  PROVE  /\ FeedTokens(s, tokens) \in Feeding
         /\ Fed(FeedTokens(s, tokens), words \o tokens, k, from)
<1>1. Len(tokens) \in Nat
  BY LenProperties
<1>2. PICK run : /\ run[0] = s
                 /\ \A n \in 1..Len(tokens) : run[n] = FeedToken(run[n - 1], tokens[n])
                 /\ FeedTokens(s, tokens) = run[Len(tokens)]
  BY FedOneByOne
<1> DEFINE Good(n) == /\ run[n] \in Feeding
                      /\ Fed(run[n], words \o SubSeq(tokens, 1, n), k, from)
           Bad == {n \in 0..Len(tokens) : ~ Good(n)}
<1>3. SUFFICES ASSUME Bad # {} PROVE FALSE
  <2>1. Good(Len(tokens))
    BY <1>1, <1>3
  <2> HIDE DEF Bad
  <2> QED
    BY <2>1, <1>2, PrefixGrows
<1>4. Bad \in SUBSET Nat
  BY <1>1
<1>5. PICK n \in Bad : \A m \in Bad : n <= m
  <2> HIDE DEF Bad
  <2> QED
    BY <1>3, <1>4, LeastNumber
<1>6. n \in 0..Len(tokens) /\ ~ Good(n)
  OBVIOUS
<1>7. Good(0)
  BY <1>2, PrefixGrows
<1>8. n \in 1..Len(tokens) /\ n - 1 \in 0..Len(tokens) /\ ~(n <= n - 1)
  BY <1>1, <1>6, <1>7
<1>9. Good(n - 1)
  BY <1>5, <1>8
<1> HIDE DEF Bad
<1>10. tokens[n] \in Token
  BY <1>8, ElementOfSeq
<1> DEFINE before == words \o SubSeq(tokens, 1, n - 1)
<1>11. /\ before \in Seq(Token)
       /\ words \o SubSeq(tokens, 1, n) = Append(before, tokens[n])
  <2>1. \A m \in 1..Len(tokens) :
          /\ words \o SubSeq(tokens, 1, m - 1) \in Seq(Token)
          /\ words \o SubSeq(tokens, 1, m)
               = Append(words \o SubSeq(tokens, 1, m - 1), tokens[m])
    BY PrefixGrows
  <2> QED
    BY <1>8, <2>1
<1>12. /\ FeedToken(run[n - 1], tokens[n]) \in Feeding
       /\ Fed(FeedToken(run[n - 1], tokens[n]), Append(before, tokens[n]), k, from)
  <2>1. run[n - 1] \in Feeding /\ Fed(run[n - 1], before, k, from)
    BY <1>9
  <2> HIDE DEF before
  <2> QED
    BY <2>1, <1>10, <1>11, TokenIsFed
<1>13. run[n] = FeedToken(run[n - 1], tokens[n])
  BY <1>2, <1>8
<1> QED
  BY <1>6, <1>11, <1>12, <1>13

(* flush() closes the rest. *)
LEMMA RestIsFlushed ==
  ASSUME NEW s \in Feeding, NEW words \in Seq(Token), NEW k \in Nat, NEW from \in Nat,
         Fed(s, words, k, from)
  PROVE  /\ Flush(s) \in Feeding /\ Flush(s).history = words
         /\ Cut(Flush(s).closed, words, k, from, Len(words))
         /\ AllClose(Flush(s).closed, Len(Flush(s).closed) - 1)
<1>1. /\ s.open \in Seq(Token) /\ s.consumed \in Nat /\ s.closed \in Seq(Piece)
      /\ Len(words) \in Nat /\ Len(s.closed) \in Nat
  BY LenProperties DEF Feeding
<1>2. /\ s.history = words /\ s.consumed <= Len(words)
      /\ s.open = SubSeq(words, s.consumed + 1, Len(words))
      /\ Unclosed(s.open) /\ s.index = k + Len(s.closed)
      /\ Cut(s.closed, words, k, from, s.consumed)
      /\ AllClose(s.closed, Len(s.closed))
  BY DEF Fed
<1>3. Len(s.open) = IF s.consumed < Len(words) THEN Len(words) - s.consumed ELSE 0
  <2>1. \A lo, hi \in Nat : hi <= Len(words) =>
          Len(SubSeq(words, lo + 1, hi)) = IF lo < hi THEN hi - lo ELSE 0
    BY Slice
  <2>2. Len(SubSeq(words, s.consumed + 1, Len(words)))
          = IF s.consumed < Len(words) THEN Len(words) - s.consumed ELSE 0
    BY <1>1, <2>1
  <2> QED
    BY <1>2, <2>2
<1>4. CASE s.open = <<>>
  <2>1. Flush(s) = s
    BY <1>4 DEF Flush
  <2>2. s.consumed = Len(words)
    <3>1. Len(s.open) = 0
      BY <1>4
    <3> QED
      BY <3>1, <1>1, <1>2, <1>3
  <2>3. AllClose(s.closed, Len(s.closed) - 1)
    <3>1. \A i \in 1..Len(s.closed) - 1 : i \in 1..Len(s.closed)
      BY <1>1
    <3> QED
      BY <1>2, <3>1 DEF AllClose
  <2> QED
    BY <2>1, <2>2, <2>3, <1>2
<1>5. CASE s.open # <<>>
  <2>1. Flush(s) = MakeSegment(s)
    BY <1>5 DEF Flush
  <2>2. Len(s.open) # 0
    BY <1>5, <1>1, EmptySeq
  <2>3. s.consumed < Len(words)
    BY <2>2, <1>1, <1>2, <1>3
  <2>4. Unclosed(Front(s.open))
    <3>1. Len(s.open) \in Nat \ {0} /\ DOMAIN s.open = 1..Len(s.open)
      BY <2>2, <1>1, LenProperties
    <3> DEFINE f == SubSeq(s.open, 0 + 1, Len(s.open) - 1)
    <3>2. Front(s.open) = f
      BY DEF Front
    <3>3. /\ f \in Seq(Token) /\ Len(f) = (IF 0 < Len(s.open) - 1 THEN Len(s.open) - 1 - 0 ELSE 0)
          /\ \A i \in 1..Len(f) : f[i] = s.open[0 + i] /\ 0 + i \in 1..Len(s.open)
      <4>1. 0 \in Nat /\ Len(s.open) - 1 \in Nat /\ Len(s.open) - 1 <= Len(s.open)
        BY <3>1
      <4> QED
        BY <4>1, <1>1, Slice
    <3> HIDE DEF f
    <3>4. Len(f) < Len(s.open) /\ DOMAIN f = 1..Len(f)
      BY <3>1, <3>3, LenProperties
    <3>5. Len(s.open) < MaxSegment /\ \A i \in 1..Len(s.open) : ~ s.open[i].ends
      BY <1>2, <3>1 DEF Unclosed
    <3>6. Len(f) < MaxSegment
      <4>1. Len(f) \in Nat /\ MaxSegment \in Nat
        BY <3>3, LenProperties, SizeAssumption
      <4> QED
        BY <4>1, <3>1, <3>4, <3>5
    <3>7. \A i \in DOMAIN f : ~ f[i].ends
      <4> TAKE i \in DOMAIN f
      <4>1. f[i] = s.open[0 + i] /\ 0 + i \in 1..Len(s.open)
        BY <3>3, <3>4
      <4> QED
        BY <4>1, <3>5
    <3> QED
      BY <3>2, <3>6, <3>7 DEF Unclosed
  <2> DEFINE m == MakeSegment(s)
  <2>5. /\ m \in Feeding /\ m.history = s.history
        /\ Cut(m.closed, words, k, from, Len(words))
        /\ Len(m.closed) = Len(s.closed) + 1
        /\ \A i \in 1..Len(s.closed) : m.closed[i] = s.closed[i]
    BY <1>2, <2>3, <2>4, SegmentMade
  <2> HIDE DEF m
  <2>6. AllClose(m.closed, Len(m.closed) - 1)
    <3>1. Len(m.closed) - 1 = Len(s.closed)
      BY <2>5, <1>1
    <3> QED
      BY <3>1, <2>5, <1>2 DEF AllClose
  <2> QED
    BY <2>1, <2>5, <2>6, <1>2 DEF m
<1> QED
  BY <1>4, <1>5

---------------------------------------------------------------------------
(* Context, and one batch of segments after another. *)

(* Each piece has the words before it as its context. *)
InContext(pieces, words) ==
  \A i \in 1..Len(pieces) :
    pieces[i].context = LastOf(SubSeq(words, 1, pieces[i].lo), ContextTokens)

(* The last k of a sequence, or all of it. *)
LEMMA LastOfSome ==
  ASSUME NEW S, NEW q \in Seq(S), NEW k \in Nat
  PROVE  /\ LastOf(q, k) \in Seq(S)
         /\ Len(LastOf(q, k)) = IF Len(q) > k THEN k ELSE Len(q)
         /\ \A i \in 1..Len(LastOf(q, k)) :
              LastOf(q, k)[i] = q[Len(q) - Len(LastOf(q, k)) + i]
<1> DEFINE lo == IF Len(q) > k THEN Len(q) - k ELSE 0
           a == SubSeq(q, lo + 1, Len(q))
<1>1. Len(q) \in Nat
  BY LenProperties
<1>2. lo \in Nat /\ lo <= Len(q) /\ Len(q) <= Len(q)
  BY <1>1
<1>3. LastOf(q, k) = a
  <2>1. lo + 1 = IF Len(q) > k THEN Len(q) - k + 1 ELSE 1
    BY <1>1
  <2> QED
    BY <2>1 DEF LastOf
<1>4. Len(q) - lo = IF Len(q) > k THEN k ELSE Len(q)
  BY <1>1
<1> HIDE DEF lo
<1>5. /\ a \in Seq(S) /\ Len(a) = (IF lo < Len(q) THEN Len(q) - lo ELSE 0)
      /\ \A i \in 1..Len(a) : a[i] = q[lo + i]
  BY <1>1, <1>2, Slice
<1> HIDE DEF a
<1>6. Len(a) = Len(q) - lo /\ Len(q) - Len(a) = lo
  BY <1>1, <1>2, <1>5
<1> QED
  BY <1>3, <1>4, <1>5, <1>6

(* _enqueue_segment() stamps the context on the closed segments and leaves *)
(* them otherwise as they are.                                             *)
LEMMA EnqueuedPieces ==
  ASSUME NEW s \in Feeding, NEW words \in Seq(Token), s.history = words,
         NEW k \in Nat, NEW from \in Nat, NEW to \in Nat,
         Cut(s.closed, words, k, from, to), NEW n \in Int, AllClose(s.closed, n), n <= Len(s.closed)
  PROVE  /\ Enqueued(s) \in Seq(Stamped) /\ Len(Enqueued(s)) = Len(s.closed)
         /\ Cut(Enqueued(s), words, k, from, to)
         /\ AllClose(Enqueued(s), n) /\ InContext(Enqueued(s), words)
<1> DEFINE q == s.closed
           e == Enqueued(s)
           Stamp(i) == [tokens |-> q[i].tokens, lo |-> q[i].lo, hi |-> q[i].hi,
                        index |-> q[i].index, context |-> ContextFor(s, q[i])]
<1>1. q \in Seq(Piece) /\ Len(q) \in Nat /\ DOMAIN q = 1..Len(q)
  BY LenProperties DEF Feeding
<1>2. \A i \in 1..Len(q) : q[i] \in Piece
  BY <1>1, ElementOfSeq
<1>3. e = [i \in 1..Len(q) |-> Stamp(i)]
  BY <1>1 DEF Enqueued
<1>4. ASSUME NEW i \in 1..Len(q) PROVE Stamp(i) \in Stamped
  <2>1. q[i].lo \in Nat /\ q[i].hi \in Nat /\ q[i].index \in Nat /\ q[i].tokens \in Seq(Token)
    BY <1>2 DEF Piece
  <2>2. q[i].lo <= Len(words)
    <3>1. q[i].lo < q[i].hi /\ q[i].hi <= Len(words)
      BY DEF Cut
    <3>2. Len(words) \in Nat
      BY LenProperties
    <3> QED
      BY <2>1, <3>1, <3>2
  <2>3. SubSeq(words, 1, q[i].lo) \in Seq(Token)
    <3>1. \A lo \in Nat : lo <= Len(words) => SubSeq(words, 0 + 1, lo) \in Seq(Token)
      BY Slice
    <3> QED
      BY <3>1, <2>1, <2>2
  <2>4. ContextFor(s, q[i]) \in Seq(Token)
    BY <2>3, LastOfSome, SizeAssumption DEF ContextFor
  <2> HIDE DEF q
  <2> QED
    BY <2>1, <2>4 DEF Stamped
<1>5. \A i \in 1..Len(q) :
        /\ Stamp(i).tokens = q[i].tokens /\ Stamp(i).lo = q[i].lo /\ Stamp(i).hi = q[i].hi
        /\ Stamp(i).index = q[i].index /\ Stamp(i).context = ContextFor(s, q[i])
  OBVIOUS
<1> HIDE DEF Stamp, e
<1>6. e \in [1..Len(q) -> Stamped]
  BY <1>3, <1>4
<1>7. e \in Seq(Stamped) /\ Len(e) = Len(q)
  <2>1. e \in Seq(Stamped)
    BY <1>1, <1>6, SeqDef
  <2>2. DOMAIN e = 1..Len(q) /\ DOMAIN e = 1..Len(e) /\ Len(e) \in Nat
    BY <2>1, <1>6, LenProperties
  <2> QED
    BY <2>1, <2>2, <1>1
<1>8. \A i \in 1..Len(q) :
        /\ e[i].tokens = q[i].tokens /\ e[i].lo = q[i].lo /\ e[i].hi = q[i].hi
        /\ e[i].index = q[i].index /\ e[i].context = ContextFor(s, q[i])
  BY <1>3, <1>5
<1>9. Cut(e, words, k, from, to)
  <2>1. /\ q = <<>> => from = to
        /\ q # <<>> => q[Len(q)].hi = to
        /\ \A i \in 1..Len(q) :
             /\ q[i].index = k + i - 1
             /\ q[i].lo = (IF i = 1 THEN from ELSE q[i - 1].hi)
             /\ q[i].lo < q[i].hi /\ q[i].hi <= Len(words)
             /\ q[i].tokens = SubSeq(words, q[i].lo + 1, q[i].hi)
             /\ Unclosed(Front(q[i].tokens))
    BY DEF Cut
  <2>2. /\ e = <<>> <=> Len(q) = 0
        /\ q = <<>> <=> Len(q) = 0
    BY <1>1, <1>7, EmptySeq
  <2> HIDE DEF q
  <2>3. e = <<>> => from = to
    BY <2>1, <2>2
  <2>4. e # <<>> => e[Len(e)].hi = to
    <3> SUFFICES ASSUME e # <<>> PROVE e[Len(e)].hi = to
      OBVIOUS
    <3>1. q # <<>> /\ Len(q) \in 1..Len(q)
      BY <2>2, <1>1
    <3> QED
      BY <3>1, <2>1, <1>7, <1>8
  <2>5. ASSUME NEW i \in 1..Len(e)
        PROVE  /\ e[i].index = k + i - 1
               /\ e[i].lo = (IF i = 1 THEN from ELSE e[i - 1].hi)
               /\ e[i].lo < e[i].hi /\ e[i].hi <= Len(words)
               /\ e[i].tokens = SubSeq(words, e[i].lo + 1, e[i].hi)
               /\ Unclosed(Front(e[i].tokens))
    <3>1. i \in 1..Len(q) /\ (i # 1 => i - 1 \in 1..Len(q))
      BY <1>1, <1>7
    <3>2. i # 1 => e[i - 1].hi = q[i - 1].hi
      BY <3>1, <1>8
    <3>3. /\ e[i].tokens = q[i].tokens /\ e[i].lo = q[i].lo /\ e[i].hi = q[i].hi
          /\ e[i].index = q[i].index
      BY <3>1, <1>8
    <3>4. /\ q[i].index = k + i - 1
          /\ q[i].lo = (IF i = 1 THEN from ELSE q[i - 1].hi)
          /\ q[i].lo < q[i].hi /\ q[i].hi <= Len(words)
          /\ q[i].tokens = SubSeq(words, q[i].lo + 1, q[i].hi)
          /\ Unclosed(Front(q[i].tokens))
      BY <3>1, <2>1
    <3> QED
      BY <3>2, <3>3, <3>4
  <2> QED
    BY <2>3, <2>4, <2>5 DEF Cut
<1>10. AllClose(e, n)
  <2> SUFFICES ASSUME NEW i \in 1..n PROVE Closes(e[i].tokens)
    BY DEF AllClose
  <2>1. i \in 1..Len(q)
    BY <1>1
  <2>2. Closes(q[i].tokens)
    BY DEF AllClose
  <2> QED
    BY <2>1, <2>2, <1>8
<1>11. InContext(e, words)
  <2> SUFFICES ASSUME NEW i \in 1..Len(e)
               PROVE  e[i].context = LastOf(SubSeq(words, 1, e[i].lo), ContextTokens)
    BY DEF InContext
  <2>1. e[i].context = ContextFor(s, q[i]) /\ e[i].lo = q[i].lo
    BY <1>7, <1>8
  <2> HIDE DEF q
  <2> QED
    BY <2>1 DEF ContextFor
<1> QED
  BY <1>7, <1>9, <1>10, <1>11 DEF e

(* A cut up to mid and one from there on are one. *)
LEMMA BatchesJoin ==
  ASSUME NEW p \in Seq(Stamped), NEW q \in Seq(Stamped), NEW words \in Seq(Token),
         NEW mid \in Nat, NEW to \in Nat,
         Cut(p, words, 0, 0, mid), Cut(q, words, Len(p), mid, to)
  PROVE  Cut(p \o q, words, 0, 0, to)
<1> DEFINE e == p \o q
<1>1. /\ e \in Seq(Stamped) /\ Len(e) = Len(p) + Len(q)
      /\ \A i \in 1..Len(p) + Len(q) : e[i] = IF i <= Len(p) THEN p[i] ELSE q[i - Len(p)]
  BY ConcatProperties
<1>2. Len(p) \in Nat /\ Len(q) \in Nat /\ Len(e) \in Nat
  BY <1>1, LenProperties
<1>3. (p = <<>> <=> Len(p) = 0) /\ (q = <<>> <=> Len(q) = 0) /\ (e = <<>> <=> Len(e) = 0)
  BY <1>1, EmptySeq
<1>4. \A i \in 1..Len(p) :
        /\ p[i].index = 0 + i - 1
        /\ p[i].lo = (IF i = 1 THEN 0 ELSE p[i - 1].hi)
        /\ p[i].lo < p[i].hi /\ p[i].hi <= Len(words)
        /\ p[i].tokens = SubSeq(words, p[i].lo + 1, p[i].hi)
        /\ Unclosed(Front(p[i].tokens))
  BY DEF Cut
<1>5. \A i \in 1..Len(q) :
        /\ q[i].index = Len(p) + i - 1
        /\ q[i].lo = (IF i = 1 THEN mid ELSE q[i - 1].hi)
        /\ q[i].lo < q[i].hi /\ q[i].hi <= Len(words)
        /\ q[i].tokens = SubSeq(words, q[i].lo + 1, q[i].hi)
        /\ Unclosed(Front(q[i].tokens))
  BY DEF Cut
<1>6. /\ p = <<>> => mid = 0
      /\ p # <<>> => p[Len(p)].hi = mid
      /\ q = <<>> => mid = to
      /\ q # <<>> => q[Len(q)].hi = to
  BY DEF Cut
<1> HIDE DEF e
<1>7. e = <<>> => 0 = to
  BY <1>1, <1>2, <1>3, <1>6
<1>8. ASSUME e # <<>> PROVE e[Len(e)].hi = to
  <2>1. CASE Len(q) = 0
    <3>1. Len(p) \in 1..Len(p) /\ Len(e) = Len(p) /\ Len(p) # 0
      BY <2>1, <1>8, <1>1, <1>2, <1>3
    <3>2. e[Len(e)] = p[Len(p)]
      BY <3>1, <1>1, <1>2
    <3> QED
      BY <2>1, <3>1, <3>2, <1>3, <1>6
  <2>2. CASE Len(q) # 0
    <3>1. /\ Len(e) \in 1..Len(p) + Len(q) /\ ~(Len(e) <= Len(p))
          /\ Len(e) - Len(p) = Len(q)
      BY <2>2, <1>1, <1>2
    <3>2. e[Len(e)] = q[Len(q)]
      BY <3>1, <1>1
    <3> QED
      BY <2>2, <3>2, <1>3, <1>6
  <2> QED
    BY <2>1, <2>2
<1>9. ASSUME NEW i \in 1..Len(e)
      PROVE  /\ e[i].index = 0 + i - 1
             /\ e[i].lo = (IF i = 1 THEN 0 ELSE e[i - 1].hi)
             /\ e[i].lo < e[i].hi /\ e[i].hi <= Len(words)
             /\ e[i].tokens = SubSeq(words, e[i].lo + 1, e[i].hi)
             /\ Unclosed(Front(e[i].tokens))
  <2>1. CASE i <= Len(p)
    <3>1. /\ i \in 1..Len(p) /\ i \in 1..Len(p) + Len(q)
          /\ i # 1 => i - 1 \in 1..Len(p) + Len(q) /\ i - 1 <= Len(p)
      BY <2>1, <1>1, <1>2
    <3>2. e[i] = p[i] /\ (i # 1 => e[i - 1] = p[i - 1])
      BY <2>1, <3>1, <1>1
    <3>3. /\ p[i].index = 0 + i - 1
          /\ p[i].lo = (IF i = 1 THEN 0 ELSE p[i - 1].hi)
          /\ p[i].lo < p[i].hi /\ p[i].hi <= Len(words)
          /\ p[i].tokens = SubSeq(words, p[i].lo + 1, p[i].hi)
          /\ Unclosed(Front(p[i].tokens))
      BY <3>1, <1>4
    <3> QED
      BY <3>2, <3>3
  <2>2. CASE ~(i <= Len(p))
    <3> DEFINE j == i - Len(p)
    <3>1. /\ j \in 1..Len(q) /\ i \in 1..Len(p) + Len(q) /\ i = Len(p) + j
      BY <2>2, <1>1, <1>2
    <3>2. e[i] = q[j]
      BY <2>2, <3>1, <1>1
    <3>3. /\ q[j].index = Len(p) + j - 1
          /\ q[j].lo = (IF j = 1 THEN mid ELSE q[j - 1].hi)
          /\ q[j].lo < q[j].hi /\ q[j].hi <= Len(words)
          /\ q[j].tokens = SubSeq(words, q[j].lo + 1, q[j].hi)
          /\ Unclosed(Front(q[j].tokens))
      BY <3>1, <1>5
    <3> HIDE DEF j
    <3>4. q[j].lo = (IF i = 1 THEN 0 ELSE e[i - 1].hi)
      <4>1. CASE j = 1 /\ Len(p) = 0
        BY <4>1, <3>1, <3>3, <1>3, <1>6
      <4>2. CASE j = 1 /\ Len(p) # 0
        <5>1. i # 1 /\ i - 1 = Len(p) /\ i - 1 \in 1..Len(p) + Len(q) /\ i - 1 <= Len(p)
          BY <4>2, <3>1, <1>2
        <5>2. e[i - 1] = p[Len(p)]
          BY <5>1, <1>1
        <5> QED
          BY <4>2, <5>1, <5>2, <3>3, <1>3, <1>6
      <4>3. CASE j # 1
        <5>1. /\ i # 1 /\ i - 1 \in 1..Len(p) + Len(q) /\ ~(i - 1 <= Len(p))
              /\ (i - 1) - Len(p) = j - 1
          BY <4>3, <3>1, <1>2
        <5>2. e[i - 1] = q[j - 1]
          BY <5>1, <1>1
        <5> QED
          BY <4>3, <5>1, <5>2, <3>3
      <4> QED
        BY <4>1, <4>2, <4>3
    <3>5. Len(p) + j - 1 = 0 + i - 1
      BY <3>1, <1>2
    <3> QED
      BY <3>2, <3>3, <3>4, <3>5
  <2> QED
    BY <2>1, <2>2
<1>10. Cut(e, words, 0, 0, to)
  BY <1>7, <1>8, <1>9 DEF Cut
<1> QED
  BY <1>10 DEF e

(* What is enqueued of the next words goes on where the segments before    *)
(* have ended.                                                             *)
LEMMA EnqueuedJoin ==
  ASSUME NEW e \in Seq(Stamped), NEW words \in Seq(Token), NEW new \in Seq(Token),
         NEW mid \in Nat, NEW to \in Nat, NEW s \in Feeding, NEW n \in Int,
         Cut(e, words, 0, 0, mid), AllClose(e, Len(e)), InContext(e, words),
         s.history = words \o new, n <= Len(s.closed),
         Cut(s.closed, words \o new, Len(e), mid, to), AllClose(s.closed, n)
  PROVE  /\ e \o Enqueued(s) \in Seq(Stamped)
         /\ Len(e \o Enqueued(s)) = Len(e) + Len(s.closed)
         /\ Cut(e \o Enqueued(s), words \o new, 0, 0, to)
         /\ AllClose(e \o Enqueued(s), Len(e) + n)
         /\ InContext(e \o Enqueued(s), words \o new)
<1> DEFINE all == words \o new
           q == Enqueued(s)
<1>1. /\ all \in Seq(Token) /\ Len(e) \in Nat /\ Len(words) \in Nat
      /\ Len(s.closed) \in Nat
  BY ConcatProperties, LenProperties DEF Feeding
<1>2. /\ q \in Seq(Stamped) /\ Len(q) = Len(s.closed)
      /\ Cut(q, all, Len(e), mid, to) /\ AllClose(q, n) /\ InContext(q, all)
  <2> HIDE DEF q
  <2>1. s.history = all /\ Cut(s.closed, all, Len(e), mid, to)
    OBVIOUS
  <2> HIDE DEF all
  <2> QED
    BY <1>1, <2>1, EnqueuedPieces DEF q
<1> HIDE DEF q
<1>3. Cut(e, words \o new, 0, 0, mid)
  <2> HIDE DEF all
  <2>1. \A p \in Stamped : p.lo \in Nat /\ p.hi \in Nat
    BY DEF Stamped
  <2>2. \A from, top \in Nat :
          Cut(e, words, 0, from, top) => Cut(e, words \o new, 0, from, top)
    BY <2>1, CutOfMore
  <2>3. 0 \in Nat
    OBVIOUS
  <2> QED
    BY <2>2, <2>3, Zenon
<1>4. /\ e \o q \in Seq(Stamped) /\ Len(e \o q) = Len(e) + Len(q)
      /\ \A i \in 1..Len(e) + Len(q) :
           (e \o q)[i] = IF i <= Len(e) THEN e[i] ELSE q[i - Len(e)]
  <2>1. q \in Seq(Stamped)
    BY <1>2
  <2> QED
    BY <2>1, ConcatProperties
<1>5. Cut(e \o q, all, 0, 0, to)
  <2>1. Cut(e, all, 0, 0, mid)
    BY <1>3
  <2> HIDE DEF all
  <2> QED
    BY <1>1, <1>2, <2>1, BatchesJoin
<1>6. InContext(e, all)
  <2> SUFFICES ASSUME NEW i \in 1..Len(e)
               PROVE  e[i].context = LastOf(SubSeq(all, 1, e[i].lo), ContextTokens)
    BY DEF InContext
  <2>1. e[i].context = LastOf(SubSeq(words, 1, e[i].lo), ContextTokens)
    BY DEF InContext
  <2>2. e[i].lo \in Nat /\ e[i].hi \in Nat
    <3>1. e[i] \in Stamped
      BY ElementOfSeq
    <3> QED
      BY <3>1 DEF Stamped
  <2>3. e[i].lo <= Len(words)
    <3>1. e[i].lo < e[i].hi /\ e[i].hi <= Len(words)
      BY DEF Cut
    <3> QED
      BY <3>1, <2>2, <1>1
  <2>4. \A hi \in Nat : hi <= Len(words) => SubSeq(all, 0 + 1, hi) = SubSeq(words, 0 + 1, hi)
    BY SliceOfConcat
  <2>5. SubSeq(all, 1, e[i].lo) = SubSeq(words, 1, e[i].lo)
    BY <2>2, <2>3, <2>4
  <2> QED
    BY <2>1, <2>5
<1> HIDE DEF all
<1>7. AllClose(e \o q, Len(e) + n)
  <2> SUFFICES ASSUME NEW i \in 1..Len(e) + n PROVE Closes((e \o q)[i].tokens)
    BY DEF AllClose
  <2>1. i \in 1..Len(e) + Len(q)
    BY <1>1, <1>2
  <2>2. CASE i <= Len(e)
    <3>1. i \in 1..Len(e) /\ (e \o q)[i] = e[i]
      BY <2>1, <2>2, <1>1, <1>4
    <3> QED
      BY <3>1 DEF AllClose
  <2>3. CASE ~(i <= Len(e))
    <3>1. i - Len(e) \in 1..n /\ (e \o q)[i] = q[i - Len(e)]
      BY <2>1, <2>3, <1>1, <1>4
    <3> QED
      BY <3>1, <1>2 DEF AllClose
  <2> QED
    BY <2>2, <2>3
<1>8. InContext(e \o q, all)
  <2> SUFFICES ASSUME NEW i \in 1..Len(e) + Len(q)
               PROVE  (e \o q)[i].context
                        = LastOf(SubSeq(all, 1, (e \o q)[i].lo), ContextTokens)
    BY <1>4 DEF InContext
  <2>1. Len(q) \in Nat
    BY <1>1, <1>2
  <2>2. CASE i <= Len(e)
    <3>1. i \in 1..Len(e) /\ (e \o q)[i] = e[i]
      BY <2>1, <2>2, <1>1, <1>4
    <3> QED
      BY <3>1, <1>6 DEF InContext
  <2>3. CASE ~(i <= Len(e))
    <3>1. i - Len(e) \in 1..Len(q) /\ (e \o q)[i] = q[i - Len(e)]
      BY <2>1, <2>3, <1>1, <1>4
    <3> QED
      BY <3>1, <1>2 DEF InContext
  <2> QED
    BY <2>2, <2>3
<1> QED
  BY <1>2, <1>4, <1>5, <1>7, <1>8 DEF q, all

(* sg is the segmenter of an utterance with these words, of which the      *)
(* segments e were put on the queue.                                       *)
Segmented(sg, e, words) ==
  /\ Fed(WithNoneClosed(sg), words, Len(e), sg.consumed)
  /\ Cut(e, words, 0, 0, sg.consumed)
  /\ AllClose(e, Len(e)) /\ InContext(e, words)

Delivered(e, words) ==
  /\ Cut(e, words, 0, 0, Len(words))
  /\ AllClose(e, Len(e) - 1) /\ InContext(e, words)

(* What the STT stage does with newly committed words, for a partial       *)
(* and, with the flush, for a final.                                       *)
LEMMA WordsAreCut ==
  ASSUME NEW sg \in Rest, NEW e \in Seq(Stamped), NEW words \in Seq(Token),
         NEW new \in Seq(Token), Segmented(sg, e, words)
  PROVE  LET s == FeedTokens(WithNoneClosed(sg), new)
         IN  /\ WithoutClosed(s) \in Rest /\ e \o Enqueued(s) \in Seq(Stamped)
             /\ Segmented(WithoutClosed(s), e \o Enqueued(s), words \o new)
             /\ e \o Enqueued(Flush(s)) \in Seq(Stamped)
             /\ Delivered(e \o Enqueued(Flush(s)), words \o new)
<1> DEFINE none == WithNoneClosed(sg)
           s == FeedTokens(none, new)
           f == Flush(s)
           all == words \o new
<1>1. none \in Feeding /\ sg.consumed \in Nat /\ Len(e) \in Nat /\ Len(all) \in Nat /\ all \in Seq(Token)
  <2>1. <<>> \in Seq(Piece)
    OBVIOUS
  <2>2. Len(e) \in Nat /\ all \in Seq(Token) /\ Len(all) \in Nat
    BY LenProperties, ConcatProperties
  <2> QED
    BY <2>1, <2>2 DEF Rest, Feeding, WithNoneClosed
<1>2. /\ Fed(none, words, Len(e), sg.consumed)
      /\ Cut(e, words, 0, 0, sg.consumed) /\ AllClose(e, Len(e)) /\ InContext(e, words)
  BY DEF Segmented
<1>3. s \in Feeding /\ Fed(s, all, Len(e), sg.consumed)
  <2> HIDE DEF none
  <2> QED
    BY <1>1, <1>2, TokensAreFed
<1> HIDE DEF s, none
<1>4. /\ f \in Feeding /\ f.history = all
      /\ Cut(f.closed, all, Len(e), sg.consumed, Len(all))
      /\ AllClose(f.closed, Len(f.closed) - 1)
  <2> HIDE DEF all
  <2> QED
    BY <1>1, <1>3, RestIsFlushed
<1> HIDE DEF f
<1>5. /\ s.open \in Seq(Token) /\ s.history \in Seq(Token) /\ s.consumed \in Nat
      /\ s.index \in Nat /\ s.closed \in Seq(Piece) /\ f.closed \in Seq(Piece)
  BY <1>3, <1>4 DEF Feeding
<1>6. Len(s.closed) \in Nat /\ Len(f.closed) \in Nat
  BY <1>5, LenProperties
<1>7. /\ s.history = all /\ s.consumed <= Len(all)
      /\ s.open = SubSeq(all, s.consumed + 1, Len(all)) /\ Unclosed(s.open)
      /\ s.index = Len(e) + Len(s.closed)
      /\ Cut(s.closed, all, Len(e), sg.consumed, s.consumed)
      /\ AllClose(s.closed, Len(s.closed))
  BY <1>3 DEF Fed
<1>8. /\ e \o Enqueued(s) \in Seq(Stamped)
      /\ Len(e \o Enqueued(s)) = Len(e) + Len(s.closed)
      /\ Cut(e \o Enqueued(s), all, 0, 0, s.consumed)
      /\ AllClose(e \o Enqueued(s), Len(e) + Len(s.closed))
      /\ InContext(e \o Enqueued(s), all)
  <2>1. Len(s.closed) \in Int /\ Len(s.closed) <= Len(s.closed)
    BY <1>6
  <2> QED
    BY <2>1, <1>1, <1>2, <1>3, <1>5, <1>7, EnqueuedJoin
<1>9. /\ e \o Enqueued(f) \in Seq(Stamped)
      /\ Len(e \o Enqueued(f)) = Len(e) + Len(f.closed)
      /\ Cut(e \o Enqueued(f), all, 0, 0, Len(all))
      /\ AllClose(e \o Enqueued(f), Len(e) + (Len(f.closed) - 1))
      /\ InContext(e \o Enqueued(f), all)
  <2>1. Len(f.closed) - 1 \in Int /\ Len(f.closed) - 1 <= Len(f.closed)
    BY <1>6
  <2> QED
    BY <2>1, <1>1, <1>2, <1>4, EnqueuedJoin
<1>10. Delivered(e \o Enqueued(f), all)
  <2>1. Len(e) + (Len(f.closed) - 1) = Len(e \o Enqueued(f)) - 1
    BY <1>1, <1>6, <1>9
  <2> QED
    BY <2>1, <1>9 DEF Delivered
<1> DEFINE r == WithoutClosed(s)
<1>11. /\ r \in Rest /\ r.open = s.open /\ r.history = s.history
       /\ r.consumed = s.consumed /\ r.index = s.index
  BY <1>5 DEF Rest, WithoutClosed
<1> HIDE DEF r
<1> DEFINE again == WithNoneClosed(r)
<1>12. /\ again.open = s.open /\ again.history = s.history
       /\ again.consumed = s.consumed /\ again.index = s.index /\ again.closed = <<>>
  BY <1>11 DEF WithNoneClosed
<1> HIDE DEF again
<1>13. Fed(again, all, Len(e \o Enqueued(s)), r.consumed)
  <2>1. Len(<<>>) = 0 /\ 1..0 = {}
    OBVIOUS
  <2>2. Cut(<<>>, all, Len(e \o Enqueued(s)), s.consumed, s.consumed)
    BY <2>1, Zenon DEF Cut
  <2>3. AllClose(<<>>, Len(<<>>))
    BY <2>1 DEF AllClose
  <2>4. again.index = Len(e \o Enqueued(s)) + Len(again.closed)
    BY <2>1, <1>1, <1>6, <1>7, <1>8, <1>12
  <2>5. /\ again.history = all /\ again.consumed <= Len(all)
        /\ again.open = SubSeq(all, again.consumed + 1, Len(all)) /\ Unclosed(again.open)
    BY <1>7, <1>12
  <2> QED
    BY <2>2, <2>3, <2>4, <2>5, <1>11, <1>12, Zenon DEF Fed
<1>14. Segmented(r, e \o Enqueued(s), all)
  BY <1>8, <1>11, <1>13 DEF Segmented, again
<1> QED
  BY <1>8, <1>9, <1>10, <1>11, <1>14 DEF r, s, f, all, none

---------------------------------------------------------------------------
(* The flat sequence of the segments' tokens. *)

(* FlattenSeq is what its recursion says: there is a function that         *)
(* satisfies it, and any two agree from the first index on.                *)
LEMMA Flattened ==
  ASSUME NEW q, NEW g, Len(q) \in Nat \ {0}, DOMAIN g = 1..Len(q),
         \A i \in 1..Len(q) : g[i] = IF i = 1 THEN q[i] ELSE g[i - 1] \o q[i]
  PROVE  FlattenSeq(q) = g[Len(q)]
<1> DEFINE Run(f) == f = [i \in 1..Len(q) |-> IF i = 1 THEN q[i] ELSE f[i - 1] \o q[i]]
           flatten == CHOOSE f : Run(f)
<1>1. FlattenSeq(q) = flatten[Len(q)]
  BY Zenon DEF FlattenSeq
<1>2. Run(flatten)
  <2>1. \E f : Run(f)
    <3> DEFINE h == [i \in 1..Len(q) |-> IF i = 1 THEN q[i] ELSE g[i - 1] \o q[i]]
    <3>1. DOMAIN h = 1..Len(q)
          /\ \A i \in 1..Len(q) : h[i] = IF i = 1 THEN q[i] ELSE g[i - 1] \o q[i]
      OBVIOUS
    <3>2. h = [i \in 1..Len(q) |-> h[i]]
      OBVIOUS
    <3> HIDE DEF h
    <3>3. \A i \in 1..Len(q) : h[i] = g[i]
      BY <3>1
    <3>4. \A i \in 1..Len(q) : i # 1 => i - 1 \in 1..Len(q)
      OBVIOUS
    <3>5. \A i \in 1..Len(q) : h[i] = IF i = 1 THEN q[i] ELSE h[i - 1] \o q[i]
      BY <3>1, <3>3, <3>4
    <3>6. h = [i \in 1..Len(q) |-> IF i = 1 THEN q[i] ELSE h[i - 1] \o q[i]]
      BY <3>2, <3>5
    <3> QED
      BY <3>6
  <2> HIDE DEF Run
  <2> QED
    BY <2>1, Zenon
<1> HIDE DEF flatten
<1>3. \A i \in 1..Len(q) : flatten[i] = IF i = 1 THEN q[i] ELSE flatten[i - 1] \o q[i]
  BY <1>2
<1> HIDE DEF Run
<1> DEFINE Bad == {i \in 1..Len(q) : flatten[i] # g[i]}
<1>4. Bad = {}
  <2> SUFFICES ASSUME Bad # {} PROVE FALSE
    OBVIOUS
  <2>1. Bad \in SUBSET Nat
    OBVIOUS
  <2>2. PICK i \in Bad : \A y \in Bad : i <= y
    <3> HIDE DEF Bad
    <3> QED
      BY <2>1, LeastNumber
  <2>3. i \in 1..Len(q) /\ flatten[i] # g[i]
    OBVIOUS
  <2>4. i # 1
    BY <2>3, <1>3
  <2>5. i - 1 \in 1..Len(q) /\ ~(i <= i - 1)
    BY <2>3, <2>4
  <2>6. flatten[i - 1] = g[i - 1]
    BY <2>2, <2>5
  <2> HIDE DEF Bad
  <2> QED
    BY <2>3, <2>4, <2>6, <1>3
<1>5. Len(q) \in 1..Len(q)
  OBVIOUS
<1> QED
  BY <1>1, <1>4, <1>5

(* The tokens of the pieces one after the other are the words cut. *)
LEMMA CutsFlatten ==
  ASSUME NEW e \in Seq(Stamped), NEW words \in Seq(Token), NEW to \in Nat,
         to <= Len(words), Cut(e, words, 0, 0, to)
  PROVE  FlattenSeq([i \in DOMAIN e |-> e[i].tokens]) = SubSeq(words, 1, to)
<1> DEFINE q == [i \in DOMAIN e |-> e[i].tokens]
           g == [i \in 1..Len(e) |-> SubSeq(words, 1, e[i].hi)]
<1>1. Len(e) \in Nat /\ DOMAIN e = 1..Len(e) /\ Len(words) \in Nat
  BY LenProperties
<1>2. \A i \in 1..Len(e) : e[i].lo \in Nat /\ e[i].hi \in Nat /\ e[i].tokens \in Seq(Token)
  <2> TAKE i \in 1..Len(e)
  <2>1. e[i] \in Stamped
    BY ElementOfSeq
  <2> QED
    BY <2>1 DEF Stamped
<1>3. /\ e = <<>> => 0 = to
      /\ e # <<>> => e[Len(e)].hi = to
      /\ \A i \in 1..Len(e) :
           /\ e[i].lo = (IF i = 1 THEN 0 ELSE e[i - 1].hi)
           /\ e[i].lo < e[i].hi /\ e[i].hi <= Len(words)
           /\ e[i].tokens = SubSeq(words, e[i].lo + 1, e[i].hi)
  BY DEF Cut
<1>4. q \in Seq(Seq(Token)) /\ Len(q) = Len(e)
  <2>1. q \in [1..Len(e) -> Seq(Token)]
    BY <1>1, <1>2
  <2> HIDE DEF q
  <2>2. q \in Seq(Seq(Token))
    BY <2>1, <1>1, SeqDef
  <2>3. DOMAIN q = 1..Len(e) /\ DOMAIN q = 1..Len(q) /\ Len(q) \in Nat
    BY <2>1, <2>2, LenProperties
  <2> QED
    BY <2>2, <2>3, <1>1
<1>5. \A i \in 1..Len(e) : q[i] = e[i].tokens /\ g[i] = SubSeq(words, 1, e[i].hi)
  BY <1>1
<1>6. DOMAIN g = 1..Len(e)
  OBVIOUS
<1> HIDE DEF q, g
<1>7. CASE Len(e) = 0
  <2>1. e = <<>> /\ Len(q) = 0 /\ q = <<>>
    BY <1>4, <1>7, EmptySeq
  <2>2. FlattenSeq(q) = <<>>
    BY <2>1 DEF FlattenSeq
  <2>3. SubSeq(words, 1, 0) = <<>>
    BY SubSeqEmpty
  <2> QED
    BY <2>1, <2>2, <2>3, <1>3 DEF q
<1>8. CASE Len(e) # 0
  <2>1. ASSUME NEW i \in 1..Len(e)
        PROVE  g[i] = IF i = 1 THEN q[i] ELSE g[i - 1] \o q[i]
    <3>1. CASE i = 1
      <4>1. e[i].lo + 1 = 1
        BY <3>1, <1>3
      <4>2. e[i].tokens = SubSeq(words, 1, e[i].hi)
        BY <4>1, <1>3
      <4> QED
        BY <4>2, <3>1, <1>5
    <3>2. CASE i # 1
      <4> DEFINE lo == e[i].lo
                 hi == e[i].hi
      <4>1. lo \in Nat /\ hi \in Nat /\ lo < hi /\ hi <= Len(words)
            /\ e[i].tokens = SubSeq(words, lo + 1, hi)
        BY <1>2, <1>3
      <4>2. i - 1 \in 1..Len(e) /\ e[i - 1].hi = lo
        BY <3>2, <1>1, <1>3
      <4> HIDE DEF lo, hi
      <4>3. SubSeq(words, 1, lo) \o SubSeq(words, lo + 1, hi) = SubSeq(words, 1, hi)
        <5>1. 1 \in 1..Len(words) + 1 /\ lo \in 1 - 1 .. Len(words) /\ hi \in lo..Len(words)
          BY <4>1, <1>1
        <5> QED
          BY <5>1, ConcatAdjacentSubSeq
      <4>4. g[i - 1] = SubSeq(words, 1, lo)
        BY <4>2, <1>5
      <4>5. g[i] = SubSeq(words, 1, hi)
        BY <1>5 DEF hi
      <4>6. q[i] = SubSeq(words, lo + 1, hi)
        BY <1>5, <4>1
      <4> QED
        BY <3>2, <4>3, <4>4, <4>5, <4>6
    <3> QED
      BY <3>1, <3>2
  <2>2. FlattenSeq(q) = g[Len(q)]
    <3>1. Len(q) \in Nat \ {0} /\ DOMAIN g = 1..Len(q)
      BY <1>1, <1>4, <1>6, <1>8
    <3>2. \A i \in 1..Len(q) : g[i] = IF i = 1 THEN q[i] ELSE g[i - 1] \o q[i]
      BY <1>4, <2>1
    <3> QED
      BY <3>1, <3>2, Flattened
  <2>3. Len(e) \in 1..Len(e) /\ e # <<>>
    BY <1>1, <1>8
  <2>4. g[Len(q)] = SubSeq(words, 1, to)
    BY <2>3, <1>3, <1>4, <1>5
  <2> QED
    BY <2>2, <2>4 DEF q
<1> QED
  BY <1>7, <1>8

(* A cut up to to and the rest behind it tile the words. *)
LEMMA CutsTile ==
  ASSUME NEW e \in Seq(Stamped), NEW words \in Seq(Token), NEW to \in Nat,
         to <= Len(words), Cut(e, words, 0, 0, to),
         NEW rest, rest = SubSeq(words, to + 1, Len(words))
  PROVE  Tiles(e, rest, words)
<1>1. Len(e) \in Nat /\ DOMAIN e = 1..Len(e) /\ Len(words) \in Nat
  BY LenProperties
<1>2. FlattenSeq([i \in DOMAIN e |-> e[i].tokens]) = SubSeq(words, 1, to)
  BY CutsFlatten
<1>3. SubSeq(words, 1, to) \o SubSeq(words, to + 1, Len(words)) = words
  <2>1. /\ 1 \in 1..Len(words) + 1 /\ to \in 1 - 1 .. Len(words)
        /\ Len(words) \in to..Len(words)
    BY <1>1
  <2>2. SubSeq(words, 1, to) \o SubSeq(words, to + 1, Len(words)) = SubSeq(words, 1, Len(words))
    BY <2>1, ConcatAdjacentSubSeq
  <2> QED
    BY <2>2, SubSeqFull
<1>4. FlattenSeq([i \in DOMAIN e |-> e[i].tokens]) \o rest = words
  BY <1>2, <1>3, Zenon
<1>5. \A i \in 1..Len(e) :
        /\ e[i].index = i - 1
        /\ e[i].lo = IF i = 1 THEN 0 ELSE e[i - 1].hi
        /\ e[i].tokens = SubSeq(words, e[i].lo + 1, e[i].hi)
  BY DEF Cut
<1> QED
  BY <1>1, <1>4, <1>5, Zenon DEF Tiles

---------------------------------------------------------------------------
(* Agreement. *)

(* tokens[c:] of a hypothesis. *)
LEMMA TailFrom ==
  ASSUME NEW S, NEW h \in Seq(S), NEW c \in Nat
  PROVE  /\ From(h, c) \in Seq(S)
         /\ Len(From(h, c)) = IF c < Len(h) THEN Len(h) - c ELSE 0
         /\ \A i \in 1..Len(From(h, c)) : From(h, c)[i] = h[c + i] /\ c + i \in 1..Len(h)
<1>1. Len(h) \in Nat /\ Len(h) <= Len(h)
  BY LenProperties
<1>2. \A lo, hi \in Nat : hi <= Len(h) =>
        /\ SubSeq(h, lo + 1, hi) \in Seq(S)
        /\ Len(SubSeq(h, lo + 1, hi)) = IF lo < hi THEN hi - lo ELSE 0
        /\ \A i \in 1..Len(SubSeq(h, lo + 1, hi)) :
             SubSeq(h, lo + 1, hi)[i] = h[lo + i] /\ lo + i \in 1..Len(h)
  BY Slice
<1> QED
  BY <1>1, <1>2 DEF From

(* All tails agree with the first one as far as CommonLength says. *)
LEMMA CommonIsShared ==
  ASSUME NEW S, NEW first \in Seq(S), NEW tails \in SUBSET Seq(S)
  PROVE  /\ CommonLength(first, tails) \in 0..Len(first)
         /\ \A t \in tails :
              /\ CommonLength(first, tails) <= Len(t)
              /\ \A i \in 1..CommonLength(first, tails) : t[i].word = first[i].word
<1> DEFINE K == {k \in 0 .. Len(first) :
                   \A t \in tails : k <= Len(t) /\ Agree(SubSeq(first, 1, k), t)}
<1>1. Len(first) \in Nat /\ \A t \in tails : Len(t) \in Nat /\ DOMAIN t = 1..Len(t)
  BY LenProperties
<1>2. 0 \in K
  <2>1. SubSeq(first, 1, 0) = <<>> /\ DOMAIN <<>> = {}
    BY SubSeqEmpty
  <2>2. \A t \in tails : Agree(SubSeq(first, 1, 0), t)
    BY <2>1 DEF Agree
  <2> QED
    BY <1>1, <2>2
<1>3. K \in SUBSET (0..Len(first)) /\ K # {}
  BY <1>2
<1>4. CommonLength(first, tails) = Max(K)
  BY DEF CommonLength
<1>5. Max(K) \in K
  <2> HIDE DEF K
  <2> QED
    BY <1>1, <1>3, MaxOfBounded
<1> DEFINE m == Max(K)
<1>6. m \in 0..Len(first) /\ \A t \in tails : m <= Len(t) /\ Agree(SubSeq(first, 1, m), t)
  BY <1>5
<1> HIDE DEF m, K
<1>7. ASSUME NEW t \in tails, NEW i \in 1..m PROVE t[i].word = first[i].word
  <2> DEFINE a == SubSeq(first, 1, m)
  <2>1. m \in Nat /\ m <= Len(first) /\ 0 \in Nat /\ 0 + 1 = 1
    BY <1>1, <1>6
  <2>2. /\ a \in Seq(S) /\ Len(a) = (IF 0 < m THEN m - 0 ELSE 0)
        /\ \A j \in 1..Len(a) : a[j] = first[0 + j]
    BY <2>1, Slice
  <2>3. Agree(a, t)
    BY <1>6
  <2> HIDE DEF a
  <2>4. DOMAIN a = 1..Len(a) /\ i \in 1..Len(a)
    BY <2>1, <2>2, LenProperties
  <2>5. i \in DOMAIN t
    BY <1>1, <1>6, <2>1
  <2>6. a[i].word = t[i].word
    BY <2>3, <2>4, <2>5 DEF Agree
  <2>7. a[i] = first[i]
    BY <2>2, <2>4
  <2> QED
    BY <2>6, <2>7
<1> QED
  BY <1>4, <1>6, <1>7 DEF m

(* What is committed of a partial is in every hypothesis of the window.    *)
LEMMA NewIsAgreed ==
  ASSUME committed \in Seq(Token), NEW w \in Seq(Seq(Token)), w # <<>>
  PROVE  LET new == NewlyAgreed(w, w[Len(w)])
         IN  /\ new \in Seq(Token)
             /\ new # <<>> => Len(w) >= Window
             /\ \A k \in 1..Len(w), i \in 1..Len(new) :
                  /\ Len(committed) + i <= Len(w[k])
                  /\ w[k][Len(committed) + i].word = new[i].word
<1> DEFINE c == Len(committed)
           h == w[Len(w)]
           tails == {From(g, c) : g \in ToSet(w)}
           first == From(Head(w), c)
           n == CommonLength(first, tails)
           new == NewlyAgreed(w, h)
<1>1. c \in Nat /\ Len(w) \in Nat \ {0} /\ DOMAIN w = 1..Len(w)
  BY LenProperties, EmptySeq
<1>2. \A k \in 1..Len(w) : w[k] \in Seq(Token)
  BY ElementOfSeq
<1>3. Head(w) = w[1] /\ 1 \in 1..Len(w) /\ Len(w) \in 1..Len(w)
  BY <1>1
<1>4. first \in Seq(Token) /\ h \in Seq(Token)
  BY <1>1, <1>2, <1>3, TailFrom
<1>5. tails \in SUBSET Seq(Token) /\ \A k \in 1..Len(w) : From(w[k], c) \in tails
  <2>1. \A g \in ToSet(w) : g \in Seq(Token)
    BY <1>1, <1>2 DEF ToSet
  <2>2. \A g \in ToSet(w) : From(g, c) \in Seq(Token)
    BY <2>1, <1>1, TailFrom
  <2>3. \A k \in 1..Len(w) : w[k] \in ToSet(w)
    BY <1>1 DEF ToSet
  <2> QED
    BY <2>2, <2>3
<1>6. new = IF Len(w) < Window THEN <<>> ELSE SubSeq(h, c + 1, c + n)
  BY DEF NewlyAgreed
<1> HIDE DEF c, h, first, new
<1>7. /\ n \in Nat
      /\ \A t \in tails : n <= Len(t) /\ \A i \in 1..n : t[i].word = first[i].word
  <2>1. /\ n \in 0..Len(first)
        /\ \A t \in tails : n <= Len(t) /\ \A i \in 1..n : t[i].word = first[i].word
    <3> HIDE DEF tails
    <3> QED
      BY <1>4, <1>5, CommonIsShared
  <2>2. Len(first) \in Nat
    BY <1>4, LenProperties
  <2> HIDE DEF n, tails
  <2> QED
    BY <2>1, <2>2
<1> HIDE DEF n, tails
<1>8. ASSUME NEW k \in 1..Len(w), NEW i \in 1..n
      PROVE  c + i <= Len(w[k]) /\ w[k][c + i].word = first[i].word
  <2> DEFINE t == From(w[k], c)
  <2>1. /\ t \in Seq(Token)
        /\ \A j \in 1..Len(t) : t[j] = w[k][c + j] /\ c + j \in 1..Len(w[k])
    BY <1>1, <1>2, TailFrom
  <2>2. t \in tails
    BY <1>5
  <2> HIDE DEF t
  <2>3. i \in 1..Len(t) /\ t[i].word = first[i].word
    <3>1. Len(t) \in Nat /\ n <= Len(t)
      BY <2>1, <2>2, <1>7, LenProperties
    <3> QED
      BY <3>1, <2>2, <1>7
  <2>4. Len(w[k]) \in Nat
    BY <1>2, LenProperties
  <2> QED
    BY <2>1, <2>3, <2>4
<1>9. CASE Len(w) < Window
  <2>1. new = <<>> /\ Len(<<>>) = 0 /\ <<>> \in Seq(Token)
    BY <1>6, <1>9
  <2> QED
    BY <2>1 DEF new, h
<1>10. CASE ~(Len(w) < Window)
  <2>1. new = SubSeq(h, c + 1, c + n)
    BY <1>6, <1>10
  <2>2. c + n <= Len(h) \/ n = 0
    BY <1>3, <1>7, <1>8 DEF h
  <2>3. Len(w) >= Window
    BY <1>1, <1>10, SizeAssumption
  <2>4. CASE n = 0
    <3>1. c + 1 \in Int /\ c + n \in Int /\ c + n < c + 1
      BY <2>4, <1>1
    <3>2. new = <<>>
      BY <3>1, <2>1, SubSeqEmpty
    <3>3. Len(<<>>) = 0 /\ <<>> \in Seq(Token)
      OBVIOUS
    <3> QED
      BY <3>2, <3>3, <2>3 DEF new, h
  <2>5. CASE n # 0
    <3>1. c + n \in Nat /\ c + n <= Len(h) /\ c < c + n
      BY <2>2, <2>5, <1>1, <1>7
    <3>2. /\ new \in Seq(Token) /\ Len(new) = n
          /\ \A i \in 1..Len(new) : new[i] = h[c + i]
      <4>1. \A lo, hi \in Nat : hi <= Len(h) =>
              /\ SubSeq(h, lo + 1, hi) \in Seq(Token)
              /\ Len(SubSeq(h, lo + 1, hi)) = IF lo < hi THEN hi - lo ELSE 0
              /\ \A i \in 1..Len(SubSeq(h, lo + 1, hi)) :
                   SubSeq(h, lo + 1, hi)[i] = h[lo + i]
        BY <1>4, Slice
      <4> DEFINE top == c + n
      <4>2. c \in Nat /\ top \in Nat /\ top <= Len(h) /\ new = SubSeq(h, c + 1, top)
        BY <3>1, <2>1, <1>1
      <4> HIDE DEF top
      <4>3. /\ new \in Seq(Token) /\ Len(new) = (IF c < top THEN top - c ELSE 0)
            /\ \A i \in 1..Len(new) : new[i] = h[c + i]
        BY <4>1, <4>2
      <4>4. Len(new) = n
        <5>1. top = c + n /\ n \in Nat /\ c < top
          BY <3>1, <1>7 DEF top
        <5> QED
          BY <5>1, <4>2, <4>3
      <4> QED
        BY <4>3, <4>4
    <3>3. Len(new) = n
      BY <3>2
    <3>4. \A k \in 1..Len(w), i \in 1..Len(new) :
            c + i <= Len(w[k]) /\ w[k][c + i].word = new[i].word
      <4> TAKE k \in 1..Len(w), i \in 1..Len(new)
      <4>1. c + i <= Len(w[k]) /\ w[k][c + i].word = first[i].word
        BY <3>3, <1>8
      <4>2. h[c + i].word = first[i].word
        BY <3>3, <1>3, <1>8 DEF h
      <4> QED
        BY <4>1, <4>2, <3>2
    <3> QED
      BY <3>2, <3>4, <2>3 DEF new, h, c
  <2> QED
    BY <2>4, <2>5
<1> QED
  BY <1>9, <1>10

---------------------------------------------------------------------------
(* The inductive invariant. *)

(* The window are the last partials of this utterance. *)
WindowInv ==
  /\ recent = window
  /\ recent \in Seq(Hypothesis) /\ Len(recent) <= Window

(* The segmenter was given the committed words and has cut them. *)
CutInv ==
  /\ committed \in Seq(Token)
  /\ seg \in Rest /\ emitted \in Seq(Stamped)
  /\ Segmented(seg, emitted, committed)

CountInv == fed \in 0..MaxHypotheses /\ disagreements \in 0..fed

(* The utterance that ended was delivered to its last word. *)
FinishedInv ==
  /\ finished.final \in Seq(Token) /\ finished.spoken \in Seq(Token)
  /\ finished.delivered \in Seq(Stamped)
  /\ Delivered(finished.delivered, finished.spoken)
  /\ UncountedFinalAgrees

StabilizerInv == WindowInv /\ CutInv /\ CountInv /\ FinishedInv

(* An utterance that has not begun. *)
LEMMA NothingIsDelivered ==
  /\ Delivered(<<>>, <<>>) /\ <<>> \in Seq(Stamped) /\ <<>> \in Seq(Token)
  /\ FreshSegmenter \in Rest /\ Segmented(FreshSegmenter, <<>>, <<>>)
<1>1. /\ Len(<<>>) = 0 /\ 1..0 = {} /\ DOMAIN <<>> = {}
      /\ <<>> \in Seq(Stamped) /\ <<>> \in Seq(Token)
  OBVIOUS
<1>2. Cut(<<>>, <<>>, 0, 0, 0)
  BY <1>1 DEF Cut
<1>3. AllClose(<<>>, Len(<<>>)) /\ AllClose(<<>>, Len(<<>>) - 1)
  BY <1>1 DEF AllClose
<1>4. InContext(<<>>, <<>>)
  BY <1>1 DEF InContext
<1>5. Delivered(<<>>, <<>>)
  BY <1>1, <1>2, <1>3, <1>4 DEF Delivered
<1> DEFINE fresh == FreshSegmenter
           none == WithNoneClosed(fresh)
<1>6. /\ fresh \in Rest /\ fresh.open = <<>> /\ fresh.history = <<>>
      /\ fresh.consumed = 0 /\ fresh.index = 0
  BY <1>1 DEF FreshSegmenter, Rest
<1> HIDE DEF fresh
<1>7. /\ none.open = <<>> /\ none.history = <<>> /\ none.closed = <<>>
      /\ none.consumed = 0 /\ none.index = 0
  BY <1>6 DEF WithNoneClosed
<1> HIDE DEF none
<1>8. SubSeq(<<>>, 0 + 1, 0) = <<>>
  BY SubSeqEmpty
<1>9. Unclosed(<<>>)
  BY <1>1, SizeAssumption DEF Unclosed
<1>10. Fed(none, <<>>, 0, 0)
  BY <1>1, <1>2, <1>3, <1>7, <1>8, <1>9 DEF Fed
<1>11. Segmented(fresh, <<>>, <<>>)
  BY <1>1, <1>2, <1>3, <1>4, <1>6, <1>10 DEF Segmented, none
<1> QED
  BY <1>1, <1>5, <1>6, <1>11 DEF fresh

LEMMA NothingIsFinished ==
  ASSUME finished = Nothing
  PROVE  FinishedInv
<1>1. /\ finished.final = <<>> /\ finished.spoken = <<>> /\ finished.delivered = <<>>
  BY DEF Nothing
<1>2. Agree(<<>>, <<>>)
  BY DEF Agree
<1>3. UncountedFinalAgrees
  BY <1>1, <1>2 DEF UncountedFinalAgrees
<1> QED
  BY <1>1, <1>3, NothingIsDelivered DEF FinishedInv

LEMMA NothingIsFinishedNext ==
  ASSUME finished' = Nothing
  PROVE  FinishedInv'
<1>1. /\ finished'.final = <<>> /\ finished'.spoken = <<>> /\ finished'.delivered = <<>>
  BY DEF Nothing
<1>2. Agree(<<>>, <<>>)
  BY DEF Agree
<1>3. UncountedFinalAgrees'
  BY <1>1, <1>2 DEF UncountedFinalAgrees
<1>4. Delivered(finished'.delivered, finished'.spoken)
  BY <1>1, NothingIsDelivered
<1>5. Delivered(finished.delivered, finished.spoken)'
  BY <1>4
<1> QED
  BY <1>1, <1>3, <1>5, NothingIsDelivered DEF FinishedInv

(* The window holds the newest hypothesis last. *)
LEMMA NewWindow ==
  ASSUME NEW q \in Seq(Hypothesis), NEW h \in Hypothesis
  PROVE  LET w == LastOf(Append(q, h), Window)
         IN  /\ w \in Seq(Hypothesis) /\ w \in Seq(Seq(Token)) /\ w # <<>>
             /\ Len(w) <= Window /\ w[Len(w)] = h
<1> DEFINE a == Append(q, h)
           w == LastOf(a, Window)
<1>1. /\ a \in Seq(Hypothesis) /\ Len(a) = Len(q) + 1 /\ a[Len(q) + 1] = h
  BY AppendProperties
<1>2. Len(q) \in Nat /\ Window \in Nat \ {0}
  BY LenProperties, SizeAssumption
<1> HIDE DEF a
<1>3. /\ w \in Seq(Hypothesis)
      /\ Len(w) = IF Len(a) > Window THEN Window ELSE Len(a)
      /\ \A i \in 1..Len(w) : w[i] = a[Len(a) - Len(w) + i]
  BY <1>1, <1>2, LastOfSome
<1> HIDE DEF w
<1>4. Len(w) \in 1..Window /\ Len(w) \in 1..Len(w) /\ Len(a) - Len(w) + Len(w) = Len(q) + 1
  BY <1>1, <1>2, <1>3
<1>5. w # <<>>
  BY <1>4
<1>6. w \in Seq(Seq(Token))
  BY <1>3, HypothesisAssumption, SeqMonotonic
<1>7. w[Len(w)] = h
  BY <1>1, <1>3, <1>4
<1> QED
  BY <1>2, <1>3, <1>4, <1>5, <1>6, <1>7 DEF w, a

LEMMA StabilizerInvInit == StabilizerInit => StabilizerInv
<1> SUFFICES ASSUME StabilizerInit PROVE StabilizerInv
  OBVIOUS
<1>1. /\ window = <<>> /\ committed = <<>> /\ disagreements = 0 /\ seg = FreshSegmenter
      /\ emitted = <<>> /\ recent = <<>> /\ finished = Nothing /\ fed = 0
  BY DEF StabilizerInit
<1>2. WindowInv
  <2>1. <<>> \in Seq(Hypothesis) /\ Len(<<>>) = 0
    OBVIOUS
  <2> QED
    BY <1>1, <2>1, SizeAssumption DEF WindowInv
<1>3. CutInv
  BY <1>1, NothingIsDelivered DEF CutInv
<1>4. CountInv
  BY <1>1, SizeAssumption DEF CountInv
<1> QED
  BY <1>1, <1>2, <1>3, <1>4, NothingIsFinished DEF StabilizerInv

(* A partial commits what is agreed, and the segmenter gets just that. *)
LEMMA PartialKeepsInv ==
  ASSUME StabilizerInv, NEW h \in Hypothesis, FeedPartial(h)
  PROVE  StabilizerInv'
<1> DEFINE w == LastOf(Append(window, h), Window)
           new == NewlyAgreed(w, h)
           s == FeedTokens(WithNoneClosed(seg), new)
<1>1. WindowInv /\ CutInv /\ CountInv
  BY DEF StabilizerInv
<1>2. /\ fed < MaxHypotheses /\ fed' = fed + 1 /\ CountDisagreement(h)
      /\ window' = w /\ committed' = committed \o new
      /\ seg' = WithoutClosed(s) /\ emitted' = emitted \o Enqueued(s)
      /\ recent' = LastOf(Append(recent, h), Window) /\ finished' = Nothing
  BY DEF FeedPartial, ExtendCommitted
<1>3. window \in Seq(Hypothesis) /\ recent = window
  BY <1>1 DEF WindowInv
<1>4. /\ w \in Seq(Hypothesis) /\ w \in Seq(Seq(Token)) /\ w # <<>>
      /\ Len(w) <= Window /\ w[Len(w)] = h
  BY <1>3, NewWindow
<1>5. committed \in Seq(Token) /\ seg \in Rest /\ emitted \in Seq(Stamped)
      /\ Segmented(seg, emitted, committed)
  BY <1>1 DEF CutInv
<1> HIDE DEF w
<1>6. new \in Seq(Token)
  BY <1>4, <1>5, NewIsAgreed
<1> HIDE DEF new
<1>7. /\ WithoutClosed(s) \in Rest /\ emitted \o Enqueued(s) \in Seq(Stamped)
      /\ Segmented(WithoutClosed(s), emitted \o Enqueued(s), committed \o new)
  BY <1>5, <1>6, WordsAreCut
<1> HIDE DEF s
<1>8. CutInv'
  <2>1. committed \o new \in Seq(Token)
    BY <1>5, <1>6, ConcatProperties
  <2>2. Segmented(seg', emitted', committed')
    BY <1>2, <1>7
  <2>3. Segmented(seg, emitted, committed)'
    BY <2>2
  <2> QED
    BY <2>1, <2>3, <1>2, <1>7 DEF CutInv
<1>9. WindowInv'
  BY <1>2, <1>3, <1>4 DEF WindowInv, w
<1>10. CountInv'
  BY <1>1, <1>2, SizeAssumption DEF CountInv, CountDisagreement
<1>11. FinishedInv'
  BY <1>2, NothingIsFinishedNext
<1> QED
  BY <1>8, <1>9, <1>10, <1>11 DEF StabilizerInv

(* A final commits its tail and flushes; what was said before it is not    *)
(* counted against it unless it is contradicted.                           *)
LEMMA FinalKeepsInv ==
  ASSUME StabilizerInv, NEW h \in Hypothesis, FeedFinal(h)
  PROVE  StabilizerInv'
<1> DEFINE c == Len(committed)
           tail == From(h, c)
           s == FeedTokens(WithNoneClosed(seg), tail)
           all == committed \o tail
<1>1. WindowInv /\ CutInv /\ CountInv
  BY DEF StabilizerInv
<1>2. /\ fed < MaxHypotheses /\ fed' = fed + 1 /\ CountDisagreement(h)
      /\ finished' = [final |-> h, spoken |-> all,
                      delivered |-> emitted \o Enqueued(Flush(s)),
                      counted |-> disagreements' > disagreements]
      /\ committed' = <<>> /\ window' = <<>> /\ seg' = FreshSegmenter
      /\ emitted' = <<>> /\ recent' = <<>>
  BY DEF FeedFinal, ResetStabilizer, ResetSegmenter
<1>3. committed \in Seq(Token) /\ seg \in Rest /\ emitted \in Seq(Stamped)
      /\ Segmented(seg, emitted, committed)
  BY <1>1 DEF CutInv
<1>4. h \in Seq(Token) /\ c \in Nat /\ Len(h) \in Nat
  BY <1>3, HypothesisAssumption, LenProperties
<1> HIDE DEF c
<1>5. /\ tail \in Seq(Token)
      /\ Len(tail) = IF c < Len(h) THEN Len(h) - c ELSE 0
      /\ \A i \in 1..Len(tail) : tail[i] = h[c + i] /\ c + i \in 1..Len(h)
  BY <1>4, TailFrom
<1> HIDE DEF tail
<1>6. /\ emitted \o Enqueued(Flush(s)) \in Seq(Stamped)
      /\ Delivered(emitted \o Enqueued(Flush(s)), all)
  BY <1>3, <1>5, WordsAreCut
<1> HIDE DEF s
<1>7. /\ all \in Seq(Token) /\ Len(all) = c + Len(tail)
      /\ \A i \in 1..c + Len(tail) : all[i] = IF i <= c THEN committed[i] ELSE tail[i - c]
  BY <1>3, <1>5, ConcatProperties DEF c
<1> HIDE DEF all
<1>8. /\ finished'.final = h /\ finished'.spoken = all
      /\ finished'.delivered = emitted \o Enqueued(Flush(s))
      /\ finished'.counted <=> disagreements' > disagreements
  BY <1>2
<1>9. UncountedFinalAgrees'
  <2> SUFFICES ASSUME ~ finished'.counted, Len(h) = Len(all) PROVE Agree(h, all)
    BY <1>8, Zenon DEF UncountedFinalAgrees
  <2>1. ~ Contradicts(h)
    <3>1. ~(disagreements' > disagreements) /\ disagreements \in Nat
      BY <1>1, <1>8 DEF CountInv
    <3> QED
      BY <3>1, <1>2 DEF CountDisagreement
  <2>2. Len(h) >= c
    BY <1>4, <1>5, <1>7
  <2>3. Agree(committed, h)
    BY <2>1, <2>2 DEF Contradicts, c
  <2>4. DOMAIN h = 1..Len(h) /\ DOMAIN committed = 1..c
    BY <1>3, <1>4, LenProperties DEF c
  <2>5. ASSUME NEW i \in DOMAIN h \cap DOMAIN all PROVE h[i].word = all[i].word
    <3>1. i \in 1..Len(h)
      BY <2>4
    <3>2. CASE i <= c
      <4>1. i \in 1..c /\ all[i] = committed[i]
        BY <3>1, <3>2, <1>4, <1>5, <1>7, <2>2
      <4> QED
        BY <4>1, <3>1, <2>3, <2>4 DEF Agree
    <3>3. CASE ~(i <= c)
      <4>1. c < Len(h) /\ i - c \in 1..Len(tail) /\ i \in 1..c + Len(tail) /\ c + (i - c) = i
        BY <3>1, <3>3, <1>4, <1>5
      <4>2. all[i] = h[i]
        BY <3>3, <4>1, <1>5, <1>7
      <4> QED
        BY <4>2
    <3> QED
      BY <3>2, <3>3
  <2> QED
    BY <2>5 DEF Agree
<1>10. FinishedInv'
  <2>1. Delivered(finished'.delivered, finished'.spoken)
    BY <1>6, <1>8
  <2>2. Delivered(finished.delivered, finished.spoken)'
    BY <2>1
  <2> QED
    BY <2>2, <1>4, <1>6, <1>7, <1>8, <1>9 DEF FinishedInv
<1>11. WindowInv'
  <2>1. <<>> \in Seq(Hypothesis) /\ Len(<<>>) = 0
    OBVIOUS
  <2> QED
    BY <1>2, <2>1, SizeAssumption DEF WindowInv
<1>12. CutInv'
  <2>1. Segmented(seg', emitted', committed')
    BY <1>2, NothingIsDelivered
  <2>2. Segmented(seg, emitted, committed)'
    BY <2>1
  <2> QED
    BY <2>2, <1>2, NothingIsDelivered DEF CutInv
<1>13. CountInv'
  BY <1>1, <1>2, SizeAssumption DEF CountInv, CountDisagreement
<1> QED
  BY <1>10, <1>11, <1>12, <1>13 DEF StabilizerInv

LEMMA RollKeepsInv ==
  ASSUME StabilizerInv, Roll
  PROVE  StabilizerInv'
<1>1. /\ committed' = <<>> /\ window' = <<>> /\ seg' = FreshSegmenter
      /\ emitted' = <<>> /\ recent' = <<>> /\ finished' = Nothing
      /\ UNCHANGED <<disagreements, fed>>
  BY DEF Roll, ResetStabilizer, ResetSegmenter
<1>2. WindowInv'
  <2>1. <<>> \in Seq(Hypothesis) /\ Len(<<>>) = 0
    OBVIOUS
  <2> QED
    BY <1>1, <2>1, SizeAssumption DEF WindowInv
<1>3. CutInv'
  <2>1. Segmented(seg', emitted', committed')
    BY <1>1, NothingIsDelivered
  <2>2. Segmented(seg, emitted, committed)'
    BY <2>1
  <2> QED
    BY <2>2, <1>1, NothingIsDelivered DEF CutInv
<1>4. CountInv'
  BY <1>1 DEF StabilizerInv, CountInv
<1> QED
  BY <1>1, <1>2, <1>3, <1>4, NothingIsFinishedNext DEF StabilizerInv

LEMMA StabilizerInvNext == StabilizerInv /\ [StabilizerNext]_stabilizerVars => StabilizerInv'
<1> SUFFICES ASSUME StabilizerInv, [StabilizerNext]_stabilizerVars PROVE StabilizerInv'
  OBVIOUS
<1>1. CASE \E h \in Hypothesis : FeedPartial(h)
  BY <1>1, PartialKeepsInv
<1>2. CASE \E h \in Hypothesis : FeedFinal(h)
  BY <1>2, FinalKeepsInv
<1>3. CASE Roll
  BY <1>3, RollKeepsInv
<1>4. CASE UNCHANGED stabilizerVars
  <2>1. WindowInv' <=> WindowInv
    BY <1>4 DEF WindowInv, stabilizerVars
  <2>2. CutInv' <=> CutInv
    <3>1. seg' = seg /\ emitted' = emitted /\ committed' = committed
      BY <1>4 DEF stabilizerVars
    <3>2. Segmented(seg, emitted, committed)' <=> Segmented(seg', emitted', committed')
      OBVIOUS
    <3> QED
      BY <3>1, <3>2 DEF CutInv
  <2>3. CountInv' <=> CountInv
    BY <1>4 DEF CountInv, stabilizerVars
  <2>4. FinishedInv' <=> FinishedInv
    <3>1. finished' = finished
      BY <1>4 DEF stabilizerVars
    <3>2. UncountedFinalAgrees' <=> UncountedFinalAgrees
      BY <3>1 DEF UncountedFinalAgrees
    <3>3. Delivered(finished.delivered, finished.spoken)'
            <=> Delivered(finished'.delivered, finished'.spoken)
      OBVIOUS
    <3> QED
      BY <3>1, <3>2, <3>3 DEF FinishedInv
  <2> QED
    BY <2>1, <2>2, <2>3, <2>4 DEF StabilizerInv
<1> QED
  BY <1>1, <1>2, <1>3, <1>4 DEF StabilizerNext

---------------------------------------------------------------------------
(* The invariant of the stabilizer and the segmenter together, for any     *)
(* words, window and cap, and any partials, finals and rolls               *)
(* (stabilize.py:166-217, segment.py:94-152).                              *)
THEOREM StabilizerInvariant == StabilizerSpec => []StabilizerInv
<1> QED
  BY StabilizerInvInit, StabilizerInvNext, PTL DEF StabilizerSpec

(* The parts of SegmentsAreRight about the utterance in progress. *)
LEMMA CutsAreRight ==
  ASSUME CutInv
  PROVE  /\ CommittedIsSegmented
         /\ Unclosed(seg.open)
         /\ \A i \in DOMAIN emitted :
              Closes(emitted[i].tokens) /\ Unclosed(Front(emitted[i].tokens))
         /\ \A i \in DOMAIN emitted :
              emitted[i].context
                = LastOf(SubSeq(committed, 1, emitted[i].lo), ContextTokens)
<1>1. /\ committed \in Seq(Token) /\ seg \in Rest /\ emitted \in Seq(Stamped)
      /\ Fed(WithNoneClosed(seg), committed, Len(emitted), seg.consumed)
      /\ Cut(emitted, committed, 0, 0, seg.consumed)
      /\ AllClose(emitted, Len(emitted)) /\ InContext(emitted, committed)
  BY DEF CutInv, Segmented
<1>2. /\ seg.history = committed /\ seg.consumed <= Len(committed)
      /\ seg.open = SubSeq(committed, seg.consumed + 1, Len(committed))
      /\ Unclosed(seg.open)
  <2> DEFINE none == WithNoneClosed(seg)
  <2>1. none.open = seg.open /\ none.history = seg.history /\ none.consumed = seg.consumed
    BY DEF WithNoneClosed
  <2> HIDE DEF none
  <2> QED
    BY <2>1, <1>1 DEF Fed, none
<1>3. seg.consumed \in Nat
  BY <1>1 DEF Rest
<1>4. Tiles(emitted, seg.open, committed)
  BY <1>1, <1>2, <1>3, CutsTile
<1>5. DOMAIN emitted = 1..Len(emitted)
  BY <1>1, LenProperties
<1>6. \A i \in 1..Len(emitted) : Unclosed(Front(emitted[i].tokens))
  BY <1>1 DEF Cut
<1> QED
  BY <1>1, <1>2, <1>4, <1>5, <1>6, Zenon DEF CommittedIsSegmented, AllClose, InContext

(* The parts of SegmentsAreRight about the utterance that just ended. *)
LEMMA FinalsAreRight ==
  ASSUME FinishedInv
  PROVE  /\ FinalDeliversEverything
         /\ \A i \in DOMAIN finished.delivered :
              LET s == finished.delivered[i].tokens
              IN  /\ Unclosed(Front(s))
                  /\ i < Len(finished.delivered) => Closes(s)
         /\ \A i \in DOMAIN finished.delivered :
              LET s == finished.delivered[i]
              IN  s.context = LastOf(SubSeq(finished.spoken, 1, s.lo), ContextTokens)
<1> DEFINE e == finished.delivered
           words == finished.spoken
<1>1. /\ words \in Seq(Token) /\ e \in Seq(Stamped)
      /\ Cut(e, words, 0, 0, Len(words)) /\ AllClose(e, Len(e) - 1) /\ InContext(e, words)
  BY DEF FinishedInv, Delivered
<1> HIDE DEF e, words
<1>2. Len(words) \in Nat /\ Len(e) \in Nat /\ DOMAIN e = 1..Len(e)
  BY <1>1, LenProperties
<1>3. Tiles(e, <<>>, words)
  <2>1. Len(words) + 1 \in Int /\ Len(words) \in Int /\ Len(words) < Len(words) + 1
    BY <1>2
  <2>2. SubSeq(words, Len(words) + 1, Len(words)) = <<>>
    BY <2>1, SubSeqEmpty
  <2>3. \A rest : rest = SubSeq(words, Len(words) + 1, Len(words)) => Tiles(e, rest, words)
    <3>1. Len(words) <= Len(words)
      BY <1>2
    <3> QED
      BY <3>1, <1>1, <1>2, CutsTile
  <2> QED
    BY <2>2, <2>3
<1>4. ASSUME NEW i \in DOMAIN e
      PROVE  /\ Unclosed(Front(e[i].tokens))
             /\ i < Len(e) => Closes(e[i].tokens)
             /\ e[i].context = LastOf(SubSeq(words, 1, e[i].lo), ContextTokens)
  <2>1. i \in 1..Len(e)
    BY <1>2
  <2>2. Unclosed(Front(e[i].tokens))
    BY <2>1, <1>1 DEF Cut
  <2>3. i < Len(e) => Closes(e[i].tokens)
    <3>1. i < Len(e) => i \in 1..(Len(e) - 1)
      BY <2>1, <1>2
    <3> QED
      BY <3>1, <1>1 DEF AllClose
  <2>4. e[i].context = LastOf(SubSeq(words, 1, e[i].lo), ContextTokens)
    BY <2>1, <1>1 DEF InContext
  <2> QED
    BY <2>2, <2>3, <2>4
<1> QED
  BY <1>3, <1>4 DEF FinalDeliversEverything, e, words

LEMMA StabilizerTypes ==
  ASSUME StabilizerInv
  PROVE  StabilizerTypeOK
<1>1. WindowInv /\ CutInv /\ CountInv
  BY DEF StabilizerInv
<1>2. committed \in Seq(Token) /\ seg \in Rest /\ emitted \in Seq(Stamped) /\ Unclosed(seg.open)
  BY <1>1, CutsAreRight DEF CutInv
<1>3. /\ seg.open \in Seq(Token) /\ Len(seg.open) < MaxSegment
      /\ seg.history \in Seq(Token) /\ seg.consumed \in Nat /\ seg.index \in Nat
  BY <1>2 DEF Rest, Unclosed
<1>4. \A i \in DOMAIN emitted :
        /\ emitted[i].tokens \in Seq(Token) /\ emitted[i].context \in Seq(Token)
        /\ emitted[i].lo \in Nat /\ emitted[i].hi \in Nat /\ emitted[i].index \in Nat
  <2> TAKE i \in DOMAIN emitted
  <2>1. emitted[i] \in Stamped
    BY <1>2, LenProperties, ElementOfSeq
  <2> QED
    BY <2>1 DEF Stamped
<1>5. window \in Seq(Hypothesis) /\ Len(window) <= Window
      /\ recent \in Seq(Hypothesis) /\ Len(recent) <= Window
  BY <1>1 DEF WindowInv
<1>6. disagreements \in 0..fed /\ fed \in 0..MaxHypotheses
  BY <1>1 DEF CountInv
<1> QED
  BY <1>2, <1>3, <1>4, <1>5, <1>6 DEF StabilizerTypeOK

(* What MT is given of an utterance is all that was committed, each word   *)
(* once and in order, cut in time and with its own context; a final        *)
(* leaves nothing behind, and what it takes back is counted                *)
(* (segment.py:94-145, stabilize.py:152-217).                              *)
THEOREM SegmentsStayRight == StabilizerSpec => []SegmentsAreRight
<1>1. StabilizerInv => SegmentsAreRight
  <2> SUFFICES ASSUME StabilizerInv PROVE SegmentsAreRight
    OBVIOUS
  <2>1. StabilizerTypeOK /\ CutInv /\ FinishedInv
    BY StabilizerTypes DEF StabilizerInv
  <2>2. CommittedIsSegmented /\ FinalDeliversEverything
    BY <2>1, CutsAreRight, FinalsAreRight
  <2>3. ClosesInTime
    BY <2>1, CutsAreRight, FinalsAreRight DEF ClosesInTime
  <2>4. ContextIsWhatPrecedes
    BY <2>1, CutsAreRight, FinalsAreRight DEF ContextIsWhatPrecedes
  <2>5. UncountedFinalAgrees
    BY <2>1 DEF FinishedInv
  <2> QED
    BY <2>1, <2>2, <2>3, <2>4, <2>5 DEF SegmentsAreRight
<1> QED
  BY <1>1, StabilizerInvariant, PTL

(* A word is committed by a partial only when the last n partials of its   *)
(* own utterance all have it at its place (stabilize.py:166-199).          *)
THEOREM OnlyAgreedCommits == StabilizerSpec => OnlyAgreedIsCommitted
<1> DEFINE Backed ==
      \A i \in DOMAIN committed' \ DOMAIN committed :
        /\ Len(recent') = Window
        /\ \A k \in DOMAIN recent' :
             i <= Len(recent'[k]) /\ recent'[k][i].word = committed'[i].word
<1>1. StabilizerInv /\ StabilizerInv' /\ [StabilizerNext]_stabilizerVars
        => [Backed]_stabilizerVars
  <2> SUFFICES ASSUME StabilizerInv, StabilizerInv', StabilizerNext PROVE Backed
    OBVIOUS
  <2>1. ASSUME NEW h \in Hypothesis, FeedPartial(h) PROVE Backed
    <3> DEFINE w == LastOf(Append(window, h), Window)
               new == NewlyAgreed(w, h)
    <3>1. committed \in Seq(Token) /\ window \in Seq(Hypothesis) /\ recent = window
      BY DEF StabilizerInv, WindowInv, CutInv
    <3>2. committed' = committed \o new /\ recent' = w
      BY <2>1, <3>1 DEF FeedPartial, ExtendCommitted
    <3>3. /\ w \in Seq(Hypothesis) /\ w \in Seq(Seq(Token)) /\ w # <<>>
          /\ Len(w) <= Window /\ w[Len(w)] = h
      BY <3>1, NewWindow
    <3> HIDE DEF w
    <3>4. /\ new \in Seq(Token)
          /\ new # <<>> => Len(w) >= Window
          /\ \A k \in 1..Len(w), i \in 1..Len(new) :
               /\ Len(committed) + i <= Len(w[k])
               /\ w[k][Len(committed) + i].word = new[i].word
      BY <3>1, <3>3, NewIsAgreed
    <3> HIDE DEF new
    <3>5. /\ committed \o new \in Seq(Token)
          /\ Len(committed \o new) = Len(committed) + Len(new)
          /\ \A i \in 1..Len(committed) + Len(new) : (committed \o new)[i]
               = IF i <= Len(committed) THEN committed[i] ELSE new[i - Len(committed)]
      BY <3>1, <3>4, ConcatProperties
    <3>6. /\ DOMAIN committed = 1..Len(committed) /\ DOMAIN w = 1..Len(w)
          /\ DOMAIN (committed \o new) = 1..Len(committed \o new)
          /\ Len(committed) \in Nat /\ Len(new) \in Nat /\ Len(w) \in Nat
      BY <3>1, <3>3, <3>4, <3>5, LenProperties
    <3> SUFFICES ASSUME NEW i \in DOMAIN (committed \o new) \ DOMAIN committed
                 PROVE  /\ Len(w) = Window
                        /\ \A k \in DOMAIN w :
                             i <= Len(w[k]) /\ w[k][i].word = (committed \o new)[i].word
      BY <3>2, Zenon
    <3> DEFINE j == i - Len(committed)
    <3>7. /\ i \in 1..Len(committed) + Len(new) /\ ~(i <= Len(committed))
          /\ j \in 1..Len(new) /\ Len(committed) + j = i
      BY <3>5, <3>6
    <3>8. (committed \o new)[i] = new[j]
      BY <3>5, <3>7
    <3> HIDE DEF j
    <3>9. new # <<>>
      BY <3>7
    <3>10. Len(w) = Window
      <4>1. Len(w) <= Window /\ Len(w) >= Window
        BY <3>3, <3>4, <3>9, Zenon
      <4>2. Len(w) \in Nat /\ Window \in Nat
        BY <3>6, SizeAssumption
      <4> QED
        BY <4>1, <4>2
    <3>11. \A k \in 1..Len(w) : i <= Len(w[k]) /\ w[k][i].word = new[j].word
      BY <3>4, <3>7
    <3> QED
      BY <3>6, <3>8, <3>10, <3>11
  <2>2. ASSUME committed' = <<>> PROVE Backed
    <3>1. DOMAIN <<>> = {}
      OBVIOUS
    <3> QED
      BY <3>1, <2>2
  <2>3. ASSUME NEW h \in Hypothesis, FeedFinal(h) PROVE Backed
    BY <2>2, <2>3 DEF FeedFinal, ResetStabilizer
  <2>4. CASE Roll
    BY <2>2, <2>4 DEF Roll, ResetStabilizer
  <2> QED
    BY <2>1, <2>3, <2>4 DEF StabilizerNext
<1>2. StabilizerInv /\ StabilizerInv' /\ [StabilizerNext]_stabilizerVars
        => [\A i \in DOMAIN committed' \ DOMAIN committed :
              /\ Len(recent') = Window
              /\ \A k \in DOMAIN recent' :
                   i <= Len(recent'[k]) /\ recent'[k][i].word = committed'[i].word]_stabilizerVars
  BY <1>1
<1> QED
  BY <1>2, StabilizerInvariant, PTL DEF StabilizerSpec, OnlyAgreedIsCommitted

(* A sequence begins what it is continued to. *)
LEMMA PrefixOfConcat ==
  ASSUME NEW S, NEW p \in Seq(S), NEW q \in Seq(S)
  PROVE  IsPrefix(p, p \o q)
<1>1. Len(p) \in Nat /\ Len(q) \in Nat /\ Len(p \o q) = Len(p) + Len(q)
  BY LenProperties, ConcatProperties
<1>2. SubSeq(p \o q, 1, Len(p)) = SubSeq(p, 1, Len(p))
  <2>1. \A lo, hi \in Nat : hi <= Len(p) => SubSeq(p \o q, lo + 1, hi) = SubSeq(p, lo + 1, hi)
    BY SliceOfConcat
  <2>2. 0 \in Nat /\ Len(p) <= Len(p) /\ 0 + 1 = 1
    BY <1>1
  <2> QED
    BY <1>1, <2>1, <2>2
<1> QED
  BY <1>1, <1>2 DEF IsPrefix

(* No hypothesis changes what is committed, until the utterance ends       *)
(* (stabilize.py:166-217).                                                 *)
THEOREM RetractsNothing == StabilizerSpec => NeverRetracts
<1> DEFINE Grows ==
      \/ recent' = <<>> /\ finished' = Nothing
      \/ finished' # Nothing /\ IsPrefix(committed, finished'.spoken)
      \/ IsPrefix(committed, committed')
<1>1. StabilizerInv /\ [StabilizerNext]_stabilizerVars => [Grows]_stabilizerVars
  <2> SUFFICES ASSUME StabilizerInv, StabilizerNext PROVE Grows
    OBVIOUS
  <2>0. committed \in Seq(Token) /\ window \in Seq(Hypothesis)
    BY DEF StabilizerInv, WindowInv, CutInv
  <2>1. ASSUME NEW h \in Hypothesis, FeedPartial(h) PROVE Grows
    <3> DEFINE w == LastOf(Append(window, h), Window)
               new == NewlyAgreed(w, h)
    <3>1. committed' = committed \o new
      BY <2>1 DEF FeedPartial, ExtendCommitted
    <3>2. w \in Seq(Seq(Token)) /\ w # <<>> /\ w[Len(w)] = h
      BY <2>0, NewWindow
    <3> HIDE DEF w
    <3>3. new \in Seq(Token)
      BY <2>0, <3>2, NewIsAgreed
    <3> HIDE DEF new
    <3> QED
      BY <2>0, <3>1, <3>3, PrefixOfConcat
  <2>2. ASSUME NEW h \in Hypothesis, FeedFinal(h) PROVE Grows
    <3> DEFINE tail == From(h, Len(committed))
    <3>1. finished'.spoken = committed \o tail /\ recent' = <<>>
      BY <2>2 DEF FeedFinal
    <3>2. tail \in Seq(Token)
      <4>1. h \in Seq(Token) /\ Len(committed) \in Nat
        BY <2>0, HypothesisAssumption, LenProperties
      <4> QED
        BY <4>1, TailFrom
    <3> HIDE DEF tail
    <3>3. IsPrefix(committed, finished'.spoken)
      BY <2>0, <3>1, <3>2, PrefixOfConcat
    <3> QED
      BY <3>1, <3>3
  <2>3. CASE Roll
    BY <2>3 DEF Roll
  <2> QED
    BY <2>1, <2>2, <2>3 DEF StabilizerNext
<1>2. StabilizerInv /\ [StabilizerNext]_stabilizerVars
        => [\/ recent' = <<>> /\ finished' = Nothing
            \/ /\ finished' # Nothing
               /\ IsPrefix(committed, finished'.spoken)
            \/ IsPrefix(committed, committed')]_stabilizerVars
  BY <1>1
<1> QED
  BY <1>2, StabilizerInvariant, PTL DEF StabilizerSpec, NeverRetracts
===========================================================================
