---------------------------- MODULE ModelWorker ----------------------------
(***************************************************************************)
(* ModelWorker of model_worker.py: a spawned child process that answers    *)
(* one request after another, seen from the event loop.                    *)
(*                                                                         *)
(* The child and the loop share two queues and the cancellation event; a   *)
(* bridge thread moves results to the loop.  What a request asks for and   *)
(* what the handler does with it are the business of the adapter that      *)
(* extends this module.  The caller is one task, so that the lock of       *)
(* request() is never waited for.                                          *)
(***************************************************************************)
EXTENDS Naturals, Sequences

CONSTANT RequestMax    \* request_maxsize of the request queue

ASSUME WorkerAssumption == RequestMax \in Nat \ {0}

VARIABLES
  ready,      \* the ready future: "none", "waiting", "ok" or "failed"
  closing,    \* how far aclose() is
  child,      \* the process
  working,    \* the request in its hands, NoRequest for none
  reqQ,       \* _req_q: requests, and the sentinel that ends the child
  cancelled,  \* _cancel_event
  results,    \* _res_q with what the bridge posted: messages to the loop
  bridge,     \* the bridge thread: "none", "reading" or "returned"
  counter,    \* _counter
  pending,    \* _pending: the requests whose future is not resolved
  answer,     \* the resolved future of the last request, NoAnswer for none
  orphaned    \* history: the child died and nobody came to know

parent     == <<ready, closing, counter, pending, answer, orphaned>>
process    == <<child, working>>
channels   == <<reqQ, cancelled, results, bridge>>
workerVars == <<parent, process, channels>>

NoRequest == [id |-> 0]
Shutdown  == [id |-> 0]
NoAnswer  == [kind |-> "none"]
Message(kind, id, value) == [kind |-> kind, id |-> id, value |-> value]

Alive == child \in {"loading", "idle", "busy"}

WorkerInit ==
  /\ ready = "none" /\ closing = "open"
  /\ child = "none" /\ working = NoRequest
  /\ reqQ = <<>> /\ cancelled = FALSE /\ results = <<>> /\ bridge = "none"
  /\ counter = 0 /\ pending = {} /\ answer = NoAnswer
  /\ orphaned = FALSE

---------------------------------------------------------------------------
(* start() *)

Spawn ==
  /\ child = "none" /\ closing = "open"
  /\ child' = "loading" /\ ready' = "waiting" /\ bridge' = "reading"
  /\ UNCHANGED <<closing, working, reqQ, cancelled, results, counter, pending,
                 answer, orphaned>>

(* The sentinel is put without waiting; a full queue goes without it. *)
WithShutdown(q) == IF Len(q) < RequestMax THEN Append(q, Shutdown) ELSE q

(* aclose() begins: the event is set and the sentinel queued.              *)
BeginClose ==
  /\ closing = "open"
  /\ IF Alive
       THEN /\ closing' = "joining"
            /\ cancelled' = TRUE
            /\ reqQ' = WithShutdown(reqQ)
       ELSE closing' = "bridge" /\ UNCHANGED <<cancelled, reqQ>>

(* The child is not ready in time, or reported that it cannot be: start()  *)
(* closes the worker before it raises.                                     *)
StartFails ==
  /\ ready \in {"waiting", "failed"}
  /\ BeginClose
  /\ UNCHANGED <<ready, process, results, bridge, counter, pending, answer, orphaned>>

---------------------------------------------------------------------------
(* The child: _child_main(). *)

Load ==
  /\ child = "loading"
  /\ \/ /\ child' = "idle"
        /\ results' = Append(results, Message("ready", 0, 0))
     \/ /\ child' = "exited"
        /\ results' = Append(results, Message("fatal", 0, 0))
  /\ UNCHANGED <<working, reqQ, cancelled, bridge, parent>>

(* Mutant of EventAtPickup: a signal survives until the next request. *)
EventKept == cancelled

(* A request is taken with the event cleared. *)
EventAtPickup == FALSE

Pickup ==
  /\ child = "idle" /\ reqQ # <<>>
  /\ reqQ' = Tail(reqQ)
  /\ IF Head(reqQ) = Shutdown
       THEN /\ child' = "exited"
            /\ results' = Append(results, Message("closed", 0, 0))
            /\ UNCHANGED <<working, cancelled>>
       ELSE /\ child' = "busy"
            /\ working' = Head(reqQ)
            /\ cancelled' = EventAtPickup
            /\ UNCHANGED results
  /\ UNCHANGED <<bridge, parent>>

(* The handler has returned or raised. *)
Return(kind, value) ==
  /\ child = "busy"
  /\ kind = "cancelled" => cancelled
  /\ child' = "idle" /\ working' = NoRequest
  /\ results' = Append(results, Message(kind, working.id, value))
  /\ UNCHANGED <<reqQ, cancelled, bridge, parent>>

(* The process dies without a word. *)
Crash ==
  /\ Alive
  /\ child' = "exited" /\ working' = NoRequest
  /\ UNCHANGED <<channels, parent>>

---------------------------------------------------------------------------
(* The bridge thread and _dispatch(). *)

(* Mutant of FailEverything: only start() is told. *)
FailStart ==
  /\ ready' = IF ready = "waiting" THEN "failed" ELSE ready
  /\ orphaned' = (orphaned \/ (ready = "ok" /\ pending = {}))
  /\ UNCHANGED <<answer, pending>>

(* What a fatal message does: everybody who waits is told. *)
FailEverything ==
  /\ ready' = IF ready = "waiting" THEN "failed" ELSE ready
  /\ answer' = IF pending # {} THEN Message("died", 0, 0) ELSE answer
  /\ orphaned' = (orphaned \/ (ready = "ok" /\ pending = {}))
  /\ pending' = {}

(* A result is for the request of its number, if that still waits. *)
Resolves(message) == message.id \in pending

Deliver ==
  /\ bridge = "reading" /\ results # <<>>
  /\ results' = Tail(results)
  /\ LET message == Head(results)
     IN  \/ /\ message.kind = "ready"
            /\ ready' = IF ready = "waiting" THEN "ok" ELSE ready
            /\ UNCHANGED <<bridge, pending, answer, orphaned>>
         \/ /\ message.kind = "fatal"
            /\ FailEverything
            /\ UNCHANGED bridge
         \/ /\ message.kind = "closed"
            /\ bridge' = "returned"
            /\ UNCHANGED <<ready, pending, answer, orphaned>>
         \/ /\ message.kind \in {"ok", "cancelled", "error"}
            /\ IF Resolves(message)
                 THEN pending' = {} /\ answer' = message
                 ELSE UNCHANGED <<pending, answer>>
            /\ UNCHANGED <<ready, bridge, orphaned>>
  /\ UNCHANGED <<process, reqQ, cancelled, closing, counter>>

(* The bridge finds no message and no process: a fatal one is posted. *)
NoticeDeath ==
  /\ bridge = "reading" /\ results = <<>> /\ child = "exited"
  /\ bridge' = "returned"
  /\ FailEverything
  /\ UNCHANGED <<process, reqQ, cancelled, results, closing, counter>>

---------------------------------------------------------------------------
(* request() of a worker that has started, as far as the put: it raises,   *)
(* or the caller waits for answer.                                         *)
Request(payload) ==
  /\ ready = "ok" /\ pending = {}
  /\ IF closing # "open" \/ Len(reqQ) >= RequestMax
       THEN /\ answer' = Message("refused", 0, 0)
            /\ UNCHANGED <<counter, reqQ, pending>>
       ELSE /\ counter' = counter + 1
            /\ reqQ' = Append(reqQ, [id |-> counter', payload |-> payload])
            /\ pending' = {counter'}
            /\ answer' = NoAnswer
  /\ UNCHANGED <<ready, closing, orphaned, process, cancelled, results, bridge>>

(* The task that waits is cancelled; the adapter signals the child. *)
Abandon ==
  /\ pending' = {} /\ answer' = NoAnswer
  /\ cancelled' = TRUE
  /\ orphaned' = (orphaned \/ answer.kind = "died")
  /\ UNCHANGED <<ready, closing, counter, process, reqQ, results, bridge>>

---------------------------------------------------------------------------
(* aclose(), after it has begun. *)

(* Mutant of AfterJoin: a child that does not stop by itself is left. *)
LeaveChild == child

(* A join that times out is followed by terminate() and, last, by kill(). *)
AfterJoin == IF Alive THEN "exited" ELSE child

JoinEnds ==
  /\ closing = "joining"
  /\ closing' = "bridge"
  /\ child' = AfterJoin /\ working' = NoRequest
  /\ UNCHANGED <<channels, ready, counter, pending, answer, orphaned>>

(* The bridge has returned, or its join has timed out. *)
EndClose ==
  /\ closing = "bridge"
  /\ closing' = "closed" /\ bridge' = "returned"
  /\ ready' = IF ready = "waiting" THEN "failed" ELSE ready
  /\ answer' = IF pending # {} THEN Message("closed", 0, 0) ELSE answer
  /\ pending' = {}
  /\ UNCHANGED <<process, reqQ, cancelled, results, counter, orphaned>>

WorkerStep ==
  \/ Spawn \/ StartFails \/ Load \/ Pickup \/ Crash
  \/ Deliver \/ NoticeDeath \/ JoinEnds \/ EndClose

WorkerTypeOK ==
  /\ ready \in {"none", "waiting", "ok", "failed"}
  /\ closing \in {"open", "joining", "bridge", "closed"}
  /\ child \in {"none", "loading", "idle", "busy", "exited"}
  /\ Len(reqQ) <= RequestMax
  /\ pending \subseteq 1..counter
===========================================================================
