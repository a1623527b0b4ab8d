---------------------------- MODULE Stabilizer ----------------------------
(***************************************************************************)
(* How revised hypotheses become segments for translation: the             *)
(* LocalAgreementStabilizer of stabilize.py and the Segmenter of           *)
(* segment.py, driven by the STT stage of pipeline.py.  All three belong   *)
(* to that stage alone and run without suspending, so one hypothesis is    *)
(* one step.  The puts on seg_queue, where the stage may wait, and the     *)
(* hypotheses it drops before they get here are in Pipeline.tla.           *)
(***************************************************************************)
EXTENDS Integers, SequencesExt, FiniteSetsExt

CONSTANTS
  Token,          \* ASR words: two tokens agree iff their word is the same
  Hypothesis,     \* what the recogniser may say, as sequences of tokens
  Window,         \* n: how many hypotheses must agree
  MaxSegment,     \* max_segment_tokens
  ContextTokens,  \* context_tokens
  MaxHypotheses   \* bound of the model: hypotheses fed

(* word is what normalize_token leaves of the text and ends says whether   *)
(* the text ends in terminal punctuation: "book." and "Book" agree, and    *)
(* only the first of them closes a segment.                                *)
ASSUME TokenAssumption ==
  \A t \in Token : DOMAIN t = {"word", "ends"} /\ t.ends \in BOOLEAN
ASSUME HypothesisAssumption == Hypothesis \subseteq Seq(Token)
ASSUME SizeAssumption ==
  /\ Window \in Nat \ {0} /\ MaxSegment \in Nat \ {0}
  /\ ContextTokens \in Nat /\ MaxHypotheses \in Nat

VARIABLES
  window,         \* _window: the last hypotheses of the utterance
  committed,      \* _committed; _committed_end is its length
  disagreements,  \* _post_commit_disagreement
  seg,            \* the segmenter: _open, _committed_history, _consumed, ...
  emitted,        \* the segments of this utterance, with their context
  recent,         \* history: the last partials of this utterance, at most n
  finished,       \* history: the outcome of the utterance that just ended
  fed             \* bound of the model: hypotheses fed so far

stabilizerVars ==
  <<window, committed, disagreements, seg, emitted, recent, finished, fed>>

FreshSegmenter == [open |-> <<>>, history |-> <<>>, consumed |-> 0, index |-> 0]
Nothing == [final |-> <<>>, spoken |-> <<>>, delivered |-> <<>>, counted |-> FALSE]

(* The words of both sequences agree as far as the shorter one goes. *)
Agree(s, t) ==
  \A i \in DOMAIN s \cap DOMAIN t : s[i].word = t[i].word

(* tokens[c:], of a hypothesis that may be shorter than c. *)
From(h, c) == SubSeq(h, c + 1, Len(h))

LastOf(s, k) == SubSeq(s, IF Len(s) > k THEN Len(s) - k + 1 ELSE 1, Len(s))

StabilizerTypeOK ==
  /\ window \in Seq(Hypothesis) /\ Len(window) <= Window
  /\ committed \in Seq(Token)
  /\ disagreements \in 0 .. fed
  /\ seg.open \in Seq(Token) /\ Len(seg.open) < MaxSegment
  /\ seg.history \in Seq(Token) /\ seg.consumed \in Nat /\ seg.index \in Nat
  /\ \A i \in DOMAIN emitted :
       /\ emitted[i].tokens \in Seq(Token) /\ emitted[i].context \in Seq(Token)
       /\ emitted[i].lo \in Nat /\ emitted[i].hi \in Nat /\ emitted[i].index \in Nat
  /\ recent \in Seq(Hypothesis) /\ Len(recent) <= Window
  /\ fed \in 0 .. MaxHypotheses

StabilizerInit ==
  /\ window = <<>> /\ committed = <<>> /\ disagreements = 0
  /\ seg = FreshSegmenter
  /\ emitted = <<>> /\ recent = <<>> /\ finished = Nothing /\ fed = 0

-----------------------------------------------------------------------------
(* The stabilizer. *)

(* _count_disagreement(): a hypothesis shorter than the committed prefix   *)
(* contradicts nothing.                                                    *)
Contradicts(h) == Len(h) >= Len(committed) /\ ~ Agree(committed, h)

(* _lcp_length(): how far all tails agree with the first of them. *)
CommonLength(first, tails) ==
  Max({k \in 0 .. Len(first) :
         \A t \in tails : k <= Len(t) /\ Agree(SubSeq(first, 1, k), t)})

(* Mutant: the oldest tail of the window is left out.                      *)
NewlyAgreedInNewest(w, h) ==
  LET c == Len(committed)
      tails == {From(g, c) : g \in ToSet(LastOf(w, Window - 1))}
  IN  IF Len(w) < Window THEN <<>>
      ELSE SubSeq(h, c + 1, c + CommonLength(From(h, c), tails))

(* What commit() adds to the prefix for a partial h, w being the window    *)
(* with h in it: nothing before the window is full, then what the          *)
(* uncommitted tails of all its hypotheses share, as the newest wrote it.  *)
NewlyAgreed(w, h) ==
  LET c == Len(committed)
      tails == {From(g, c) : g \in ToSet(w)}
  IN  IF Len(w) < Window THEN <<>>
      ELSE SubSeq(h, c + 1, c + CommonLength(From(Head(w), c), tails))

(* Mutant: the newest hypothesis replaces the prefix. *)
ExtendCommittedAnew(new, h) ==
  committed' = IF new = <<>> THEN committed ELSE SubSeq(h, 1, Len(committed) + Len(new))

ResetStabilizer == committed' = <<>> /\ window' = <<>>
ExtendCommitted(new, h) == committed' = committed \o new

-----------------------------------------------------------------------------
(* The segmenter. *)

(* _make_segment(): close the open tokens as the next segment. *)
MakeSegment(s) ==
  LET hi == s.consumed + Len(s.open)
  IN  [s EXCEPT !.open = <<>>, !.consumed = hi, !.index = @ + 1,
         !.closed = Append(@, [tokens |-> s.open, lo |-> s.consumed,
                               hi |-> hi, index |-> s.index])]

Full(open) == Len(open) >= MaxSegment

(* One turn of feed()'s loop. *)
FeedToken(s, tok) ==
  LET grown == [s EXCEPT !.history = Append(@, tok), !.open = Append(@, tok)]
  IN  IF tok.ends \/ Full(grown.open) THEN MakeSegment(grown) ELSE grown

(* feed(): one token after the other. *)
FeedTokens(s, tokens) ==
  LET run[n \in 0..Len(tokens)] ==
        IF n = 0 THEN s ELSE FeedToken(run[n - 1], tokens[n])
  IN  run[Len(tokens)]

Flush(s) == IF s.open = <<>> THEN s ELSE MakeSegment(s)

(* context_for(): the tokens before the segment, at most context_tokens. *)
ContextFor(s, piece) == LastOf(SubSeq(s.history, 1, piece.lo), ContextTokens)

(* What _enqueue_segment() stamps on the closed segments. *)
Enqueued(s) ==
  [i \in DOMAIN s.closed |->
     [tokens |-> s.closed[i].tokens, lo |-> s.closed[i].lo, hi |-> s.closed[i].hi,
      index |-> s.closed[i].index, context |-> ContextFor(s, s.closed[i])]]

(* Mutant: reset() keeps the tokens of the open segment. *)
ResetSegmenterButOpen == seg' = [FreshSegmenter EXCEPT !.open = seg.open]
ResetSegmenter == seg' = FreshSegmenter

WithNoneClosed(s) ==
  [open |-> s.open, history |-> s.history, consumed |-> s.consumed,
   index |-> s.index, closed |-> <<>>]
WithoutClosed(s) ==
  [open |-> s.open, history |-> s.history, consumed |-> s.consumed, index |-> s.index]

-----------------------------------------------------------------------------
CountDisagreement(h) ==
  disagreements' = disagreements + (IF Contradicts(h) THEN 1 ELSE 0)

(* A partial: commit what agrees and put the segments that closed. *)
FeedPartial(h) ==
  LET w == LastOf(Append(window, h), Window)
      new == NewlyAgreed(w, h)
      s == FeedTokens(WithNoneClosed(seg), new)
  IN  /\ fed < MaxHypotheses
      /\ fed' = fed + 1
      /\ CountDisagreement(h)
      /\ window' = w
      /\ ExtendCommitted(new, h)
      /\ seg' = WithoutClosed(s)
      /\ emitted' = emitted \o Enqueued(s)
      /\ recent' = LastOf(Append(recent, h), Window)
      /\ finished' = Nothing

(* A final: commit the whole tail, put what closes and the trailing        *)
(* clause, and start a fresh utterance.                                    *)
FeedFinal(h) ==
  LET tail == From(h, Len(committed))
      s == Flush(FeedTokens(WithNoneClosed(seg), tail))
  IN  /\ fed < MaxHypotheses
      /\ fed' = fed + 1
      /\ CountDisagreement(h)
      /\ finished' = [final |-> h, spoken |-> committed \o tail,
                      delivered |-> emitted \o Enqueued(s),
                      counted |-> disagreements' > disagreements]
      /\ ResetStabilizer /\ ResetSegmenter
      /\ emitted' = <<>> /\ recent' = <<>>

(* _roll_utterance() for a barge-in, between two hypotheses. *)
Roll ==
  /\ ResetStabilizer /\ ResetSegmenter
  /\ emitted' = <<>> /\ recent' = <<>> /\ finished' = Nothing
  /\ UNCHANGED <<disagreements, fed>>

StabilizerNext ==
  \/ \E h \in Hypothesis : FeedPartial(h) \/ FeedFinal(h)
  \/ Roll

StabilizerSpec == StabilizerInit /\ [][StabilizerNext]_stabilizerVars

-----------------------------------------------------------------------------
(* A word reaches the translation because the last n partials of its own   *)
(* utterance all have it at its place: none of an utterance that ended or  *)
(* was interrupted has a say (stabilize.py:21-24, 38).                     *)
OnlyAgreedIsCommitted ==
  [][\A i \in DOMAIN committed' \ DOMAIN committed :
       /\ Len(recent') = Window
       /\ \A k \in DOMAIN recent' :
            i <= Len(recent'[k]) /\ recent'[k][i].word = committed'[i].word]_stabilizerVars

(* The prefix only grows: whatever a later hypothesis says, what was       *)
(* committed in an utterance stays its beginning (stabilize.py:30-33).     *)
NeverRetracts ==
  [][\/ recent' = <<>> /\ finished' = Nothing
     \/ /\ finished' # Nothing
        /\ IsPrefix(committed, finished'.spoken)
     \/ IsPrefix(committed, committed')]_stabilizerVars

(* The segments of an utterance and the open rest are its committed words, *)
(* each of them once, with spans and indices that count from zero          *)
(* (segment.py:94-108): nothing is lost or translated twice, and the       *)
(* reset between two utterances leaves nothing of the first one behind.    *)
Tiles(segments, rest, words) ==
  /\ FlattenSeq([i \in DOMAIN segments |-> segments[i].tokens]) \o rest = words
  /\ \A i \in DOMAIN segments :
       /\ segments[i].index = i - 1
       /\ segments[i].lo = IF i = 1 THEN 0 ELSE segments[i - 1].hi
       /\ segments[i].tokens = SubSeq(words, segments[i].lo + 1, segments[i].hi)

CommittedIsSegmented ==
  Tiles(emitted, seg.open, committed) /\ seg.history = committed

(* A final leaves nothing untranslated: its segments, the trailing clause  *)
(* without punctuation among them, are all that was committed              *)
(* (segment.py:126-129).                                                   *)
FinalDeliversEverything ==
  Tiles(finished.delivered, <<>>, finished.spoken)

(* MT gets whole clauses: a segment ends at its first terminal mark or is  *)
(* exactly as long as the cap, only the last one of an utterance may be    *)
(* the rest, and a clause that is complete is never held back              *)
(* (segment.py:8-15).                                                      *)
Closes(s) == Last(s).ends \/ Len(s) = MaxSegment
Unclosed(s) == Len(s) < MaxSegment /\ \A i \in DOMAIN s : ~ s[i].ends

ClosesInTime ==
  /\ Unclosed(seg.open)
  /\ \A i \in DOMAIN emitted :
       Closes(emitted[i].tokens) /\ Unclosed(Front(emitted[i].tokens))
  /\ \A i \in DOMAIN finished.delivered :
       LET s == finished.delivered[i].tokens
       IN  /\ Unclosed(Front(s))
           /\ i < Len(finished.delivered) => Closes(s)

(* The context of a segment is what was said right before it, never its    *)
(* own words and never another utterance's (segment.py:138-140).           *)
ContextIsWhatPrecedes ==
  /\ \A i \in DOMAIN emitted :
       emitted[i].context
         = LastOf(SubSeq(committed, 1, emitted[i].lo), ContextTokens)
  /\ \A i \in DOMAIN finished.delivered :
       LET s == finished.delivered[i]
       IN  s.context = LastOf(SubSeq(finished.spoken, 1, s.lo), ContextTokens)

(* A final that covers what was spoken and is not counted as a             *)
(* disagreement says the words that were spoken: the counter is a signal   *)
(* the user can trust (stabilize.py:126-133, README.md:100-102).           *)
UncountedFinalAgrees ==
  (~ finished.counted /\ Len(finished.final) = Len(finished.spoken))
    => Agree(finished.final, finished.spoken)

(***************************************************************************)
(* What MT is given of an utterance, while it lasts and when it has ended: *)
(* every committed word once and in order, cut in time, with its own       *)
(* context, and told from what the recogniser took back                    *)
(* (segment.py:94-145, stabilize.py:152-217).                              *)
(***************************************************************************)
SegmentsAreRight ==
  /\ StabilizerTypeOK
  /\ CommittedIsSegmented
  /\ FinalDeliversEverything
  /\ ClosesInTime
  /\ ContextIsWhatPrecedes
  /\ UncountedFinalAgrees
=============================================================================
