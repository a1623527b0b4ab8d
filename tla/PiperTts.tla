------------------------------ MODULE PiperTts -----------------------------
(***************************************************************************)
(* PiperTTS of backends/piper.py over its model worker: an utterance is a  *)
(* start request and then one request per block, with one block of         *)
(* lookahead; a barge-in may abandon it at any moment and the next         *)
(* utterance follows at once, while the child may still be at work.        *)
(***************************************************************************)
EXTENDS ModelWorker

CONSTANTS
  MaxUtterances,  \* bound: utterances synthesized
  MaxBlocks       \* bound: blocks of an utterance

ASSUME PiperAssumption == {MaxUtterances, MaxBlocks} \subseteq Nat

VARIABLES
  generator,  \* child, state["gen"]: the utterance and its next block
  utterance,  \* the utterance being synthesized, counted from 1
  stage,      \* where _synthesize() is: "idle", "start", "next" or "yield"
  held,       \* the block of the lookahead, NoBlock for none
  spoken,     \* history: the chunks yielded
  failed      \* history: an answer that was no block made synthesis raise

client == <<utterance, stage, held, spoken, failed>>
vars == <<workerVars, generator, client>>

NoGenerator == [utt |-> 0, block |-> 0]
NoBlock == NoGenerator
Rate    == NoGenerator      \* what start answers
End     == [utt |-> 0, block |-> 1]

Init ==
  /\ WorkerInit
  /\ generator = NoGenerator
  /\ utterance = 0 /\ stage = "idle" /\ held = NoBlock
  /\ spoken = <<>> /\ failed = "no"

---------------------------------------------------------------------------
(* The handler in the child.  It looks at the event once, at its start.    *)

HandlerRaises ==
  /\ \E kind \in {"cancelled", "error"} : Return(kind, 0)
  /\ UNCHANGED <<generator, client>>

(* start: a stale generator is closed and a fresh one opened. *)
HandleStart ==
  /\ working # NoRequest /\ working.payload.op = "start"
  /\ Return("ok", Rate)
  /\ generator' = [utt |-> working.payload.utt, block |-> 1]
  /\ UNCHANGED client

(* next: one block, or the end; also when no generator is open. *)
HandleNext ==
  /\ working # NoRequest /\ working.payload.op = "next"
  /\ \/ /\ generator # NoGenerator /\ generator.block <= MaxBlocks
        /\ Return("ok", generator)
        /\ generator' = [generator EXCEPT !.block = @ + 1]
     \/ /\ Return("ok", End)
        /\ generator' = NoGenerator
  /\ UNCHANGED client

---------------------------------------------------------------------------
(* The adapter on the loop. *)

(* synthesize() of the next utterance; one that raised ends the session. *)
Synthesize ==
  /\ stage = "idle" /\ failed = "no" /\ utterance < MaxUtterances
  /\ Request([op |-> "start", utt |-> utterance + 1])
  /\ utterance' = utterance + 1
  /\ stage' = "start" /\ held' = NoBlock
  /\ UNCHANGED <<generator, spoken, failed>>

NextBlock ==
  /\ Request([op |-> "next", utt |-> utterance])
  /\ stage' = "next"

(* start has been answered: the first block is asked for. *)
Started ==
  /\ stage = "start" /\ answer.kind = "ok"
  /\ NextBlock
  /\ UNCHANGED <<generator, utterance, held, spoken, failed>>

Chunk(block, final) == [utt |-> utterance, of |-> block, final |-> final]

(* The block held back is final when the answer after it is the end. *)
FinalOf(value) == value = End

(* next has been answered: the block held back is yielded, if there is one. *)
Answered ==
  /\ stage = "next" /\ answer.kind = "ok"
  /\ spoken' = IF held # NoBlock THEN Append(spoken, Chunk(held, FinalOf(answer.value)))
               ELSE spoken
  /\ IF answer.value = End THEN stage' = "idle" /\ held' = NoBlock
     ELSE stage' = "yield" /\ held' = answer.value
  /\ answer' = NoAnswer
  /\ UNCHANGED <<ready, closing, counter, pending, orphaned, process, channels,
                 generator, utterance, failed>>

(* The consumer has taken the chunk. *)
Continue ==
  /\ stage = "yield"
  /\ NextBlock
  /\ UNCHANGED <<generator, utterance, held, spoken, failed>>

(* Any other answer raises. *)
Raises ==
  /\ stage \in {"start", "next"} /\ answer.kind \notin {"none", "ok"}
  /\ failed' = IF failed = "no" THEN answer.kind ELSE failed
  /\ stage' = "idle" /\ answer' = NoAnswer
  /\ UNCHANGED <<ready, closing, counter, pending, orphaned, process, channels,
                 generator, utterance, held, spoken>>

(* A barge-in cancels the synthesis: while it waits, or at a yield. *)
Interrupt ==
  /\ \/ stage \in {"start", "next"} /\ Abandon
     \/ stage = "yield" /\ UNCHANGED workerVars
  /\ stage' = "idle"
  /\ UNCHANGED <<generator, utterance, held, spoken, failed>>

(* PiperTTS.aclose(): the event is set, then the worker is closed. *)
Close ==
  /\ ready = "ok"
  /\ BeginClose
  /\ UNCHANGED <<ready, process, results, bridge, counter, pending, answer, orphaned,
                 generator, client>>

Next ==
  \/ WorkerStep /\ UNCHANGED <<generator, client>>
  \/ HandlerRaises \/ HandleStart \/ HandleNext
  \/ Synthesize \/ Started \/ Answered \/ Continue \/ Raises
  \/ Interrupt
  \/ Close

Spec == Init /\ [][Next]_vars

(***************************************************************************)
(* The child loads (or fails to) or is given up, takes requests and works  *)
(* them off; the bridge polls; the stages of aclose() time out.            *)
(***************************************************************************)
FairSpec ==
  /\ Spec
  /\ WF_vars(Load /\ UNCHANGED <<generator, client>>)
  /\ WF_vars(Pickup /\ UNCHANGED <<generator, client>>)
  /\ WF_vars(HandleStart \/ HandleNext)
  /\ WF_vars((Deliver \/ NoticeDeath) /\ UNCHANGED <<generator, client>>)
  /\ WF_vars((StartFails \/ JoinEnds \/ EndClose) /\ UNCHANGED <<generator, client>>)
  /\ WF_vars(Started \/ Answered \/ Raises)

---------------------------------------------------------------------------
TypeOK ==
  /\ WorkerTypeOK
  /\ stage \in {"idle", "start", "next", "yield"}
  /\ utterance \in 0..MaxUtterances

(***************************************************************************)
(* What is spoken for an utterance are blocks of its own text, from the    *)
(* first and in order, whatever requests of abandoned utterances are still *)
(* queued, at work or being answered.                                      *)
(***************************************************************************)
SpeaksItsOwnText ==
  \A i \in DOMAIN spoken :
    /\ spoken[i].of.utt = spoken[i].utt
    /\ spoken[i].of.block =
         IF i > 1 /\ spoken[i - 1].utt = spoken[i].utt
           THEN spoken[i - 1].of.block + 1 ELSE 1

(***************************************************************************)
(* A chunk is final exactly when the utterance has come to its end with    *)
(* it: never in the middle, never in an utterance cut short.               *)
(***************************************************************************)
FinalChunkEndsIt ==
  \A i \in DOMAIN spoken :
    LET last == i = Len(spoken) \/ spoken[i + 1].utt # spoken[i].utt
    IN  /\ spoken[i].final => last
        /\ (last /\ ~spoken[i].final) =>
             (utterance > spoken[i].utt \/ held # NoBlock \/ closing # "open")

(***************************************************************************)
(* A cancellation signalled for one request never hits a later one: only   *)
(* the end of the session cancels a request somebody waits for.            *)
(***************************************************************************)
OnlyOwnCancellation == failed = "cancelled" => closing # "open"

(***************************************************************************)
(* Whoever waits for an answer gets one, although the child may die at any *)
(* moment and requests are abandoned, unless the child died when nobody    *)
(* waited: nothing reads its results any more, and the next request waits  *)
(* for ever.                                                               *)
(***************************************************************************)
RequestIsAnswered ==
  stage \in {"start", "next"} ~> (stage \in {"idle", "yield"} \/ orphaned)

(* aclose() ends and leaves no process behind and nobody waiting, however  *)
(* the child hangs; so does a start() that cannot succeed.                 *)
CloseReaps == closing # "open" ~> (closing = "closed" /\ ~Alive /\ pending = {})

(***************************************************************************)
(* An utterance gets the answers to its own requests: its blocks in order, *)
(* the final mark on its last, and no cancellation but its own             *)
(* (model_worker.py _dispatch, piper.py _synthesize).                      *)
(***************************************************************************)
AnswersAreOwn ==
  /\ TypeOK
  /\ SpeaksItsOwnText
  /\ FinalChunkEndsIt
  /\ OnlyOwnCancellation
===========================================================================
