------------------------------ MODULE Startup ------------------------------
(***************************************************************************)
(* run_session of runtime.py with the sessions of session.py: models are   *)
(* resolved, adapters started, devices opened, one session or a dual pair  *)
(* run; whatever happens, an exit stack closes what was opened, last first *)
(* and each within a budget.                                               *)
(*                                                                         *)
(* An adapter stands for its model worker, whose child process can ignore  *)
(* the shutdown sentinel and even SIGTERM.  Time passes in ticks, and only *)
(* while something closes.                                                 *)
(***************************************************************************)
EXTENDS ModelCache, FiniteSets, SequencesExt

CONSTANTS
  Preflight,   \* the process that resolves the models of this run
  Adapters,    \* the adapters of all directions, in the order they start
  Directions,  \* the sessions: one, or two for a dual run
  Grace,       \* grace_s of a model worker, in ticks
  Budget       \* shutdown_timeout_ms, in ticks

Workers == {Adapters[i] : i \in DOMAIN Adapters}
Channels == {Directions[i] : i \in DOMAIN Directions}
Tasks   == Channels \X {"mic", "pipe"}
Nothing == "nothing"

ASSUME StartupAssumption ==
  /\ Preflight \in Procs
  /\ Adapters \in Seq(Workers) /\ Directions \in Seq(Channels)
  /\ Workers \cap Channels = {} /\ Nothing \notin Workers \cup Channels
  /\ \A i, j \in DOMAIN Adapters : Adapters[i] = Adapters[j] => i = j
  /\ Grace \in Nat \ {0} /\ Budget \in Nat \ {0}

VARIABLES
  phase,     \* how far run_session is
  child,     \* the child process of an adapter
  stack,     \* the exit stack: workers and sinks (by channel), last first
  task,      \* the tasks of the sessions
  stop,      \* who asked the session task to stop
  closing,   \* what is being closed
  stage,     \* how far its aclose() is
  spent,     \* ticks since it began
  bounded,   \* whether the budget bounds it (a failed start() closes alone)
  error,     \* what run_session is raising
  cancelled, \* bound: run_session is cancelled from outside at most once
  cutOff     \* history: what a cancellation interrupted in start or aclose

closeVars == <<closing, stage, spent, bounded>>
vars == <<cacheVars, phase, child, stack, task, stop, closeVars, error, cancelled, cutOff>>

Alive(w) == child[w] \in {"loading", "up"}

Init ==
  /\ CacheInit
  /\ phase = "prefetch"
  /\ child = [w \in Workers |-> "none"]
  /\ stack = <<>>
  /\ task = [t \in Tasks |-> "none"] /\ stop = {}
  /\ closing = Nothing /\ stage = "none" /\ spent = 0 /\ bounded = TRUE
  /\ error = "none" /\ cancelled = FALSE /\ cutOff = {}

---------------------------------------------------------------------------
(* Construction. *)

(* The child of adapter i is spawned, if there is one left to start. *)
StartFrom(i, children) ==
  IF i <= Len(Adapters)
    THEN phase' = "start" /\ child' = [children EXCEPT ![Adapters[i]] = "loading"]
    ELSE phase' = "open" /\ child' = children

(* The preflight child answers: the adapters start, or the run is over. *)
Prefetched ==
  /\ phase = "prefetch"
  /\ \/ /\ at[Preflight] = "resolved"
        /\ StartFrom(1, child) /\ UNCHANGED error
     \/ /\ at[Preflight] \in {"failed", "dead"}
        /\ phase' = "unwind" /\ error' = "failed" /\ UNCHANGED child
  /\ UNCHANGED <<cacheVars, stack, task, stop, closeVars, cancelled, cutOff>>

(* The adapter whose start() is awaited, whether it loads or gives up. *)
Starting == IF closing # Nothing THEN closing
            ELSE CHOOSE w \in Workers : child[w] = "loading"

(* An adapter is ready: its close goes on the stack, the next one starts. *)
Ready ==
  /\ phase = "start" /\ closing = Nothing
  /\ stack' = <<Starting>> \o stack
  /\ \E i \in DOMAIN Adapters :
       Adapters[i] = Starting /\ StartFrom(i + 1, [child EXCEPT ![Starting] = "up"])
  /\ UNCHANGED <<cacheVars, task, stop, closeVars, error, cancelled, cutOff>>

BeginClose(r, budgeted) ==
  /\ closing' = r /\ spent' = 0 /\ bounded' = budgeted
  /\ stage' = IF r \in Workers THEN "join" ELSE "sink"

(* The model cannot be loaded, or not in time: start() closes the worker   *)
(* itself, outside any budget, and raises.                                 *)
StartFails ==
  /\ phase = "start" /\ closing = Nothing
  /\ BeginClose(Starting, FALSE)
  /\ error' = "failed"
  /\ UNCHANGED <<cacheVars, phase, child, stack, task, stop, cancelled, cutOff>>

(* The devices: sinks go on the stack, the tasks of the sessions start. *)
DevicesOpen ==
  /\ stack' = Reverse(Directions) \o stack
  /\ task' = [t \in Tasks |-> "running"]
  /\ phase' = "run" /\ UNCHANGED error

DevicesFail == phase' = "unwind" /\ error' = "failed" /\ UNCHANGED <<stack, task>>

OpenDevices ==
  /\ phase = "open"
  /\ DevicesOpen \/ DevicesFail
  /\ UNCHANGED <<cacheVars, child, stop, closeVars, cancelled, cutOff>>

---------------------------------------------------------------------------
(* The sessions: a task group of channels, each one a task group of the    *)
(* microphone's broadcaster and the pipeline.                              *)

Over(c)       == \A t \in Tasks : t[1] = c => task[t] # "running"
Failed(c)     == \E t \in Tasks : t[1] = c /\ task[t] = "failed"
SessionOver   == \A c \in Channels : Over(c)
AnyFailed     == \E c \in Channels : Failed(c)

(* Mutant of Asked: cancelling the session task reaches no channel. *)
AskedByFailure(c) == Failed(c) \/ \E d \in Channels : Failed(d) /\ Over(d)

(* A task is asked to end when its sibling fails, when the other channel   *)
(* has failed and wound up, or when the session task is cancelled.         *)
Asked(c) == stop # {} \/ Failed(c) \/ \E d \in Channels : Failed(d) /\ Over(d)

(* The broadcaster ends with its source.  The pipeline ends when its frames *)
(* have, or, on the provider path, when the provider hangs up.             *)
TaskEnds(t) ==
  /\ phase = "run" /\ task[t] = "running"
  /\ \/ task' = [task EXCEPT ![t] = "done"]
     \/ task' = [task EXCEPT ![t] = "failed"]
     \/ Asked(t[1]) /\ task' = [task EXCEPT ![t] = "cancelled"]
  /\ UNCHANGED <<cacheVars, phase, child, stack, stop, closeVars, error, cancelled, cutOff>>

(* Ctrl-C cancels the session task. *)
Sigint ==
  /\ phase = "run" /\ ~SessionOver /\ "sigint" \notin stop
  /\ stop' = stop \cup {"sigint"}
  /\ UNCHANGED <<cacheVars, phase, child, stack, task, closeVars, error, cancelled, cutOff>>

(* What the session task raises through _run_cancellable: a failure first, *)
(* nothing after Ctrl-C, the cancellation otherwise.                       *)
Outcome ==
  IF AnyFailed THEN "failed"
  ELSE IF stop = {"cancel"} THEN "cancelled" ELSE "none"

(* Mutant of SessionEnds: cleanup does not wait for a cancelled session. *)
SessionEndsAtOnce ==
  /\ phase = "run" /\ (SessionOver \/ stop # {})
  /\ phase' = "unwind" /\ error' = Outcome
  /\ UNCHANGED <<cacheVars, child, stack, task, stop, closeVars, cancelled, cutOff>>

SessionEnds ==
  /\ phase = "run" /\ SessionOver
  /\ phase' = "unwind" /\ error' = Outcome
  /\ UNCHANGED <<cacheVars, child, stack, task, stop, closeVars, cancelled, cutOff>>

---------------------------------------------------------------------------
(* The exit stack. *)

CloseNext ==
  /\ phase = "unwind" /\ closing = Nothing /\ stack # <<>>
  /\ BeginClose(Head(stack), TRUE)
  /\ stack' = Tail(stack)
  /\ UNCHANGED <<cacheVars, phase, child, task, stop, error, cancelled, cutOff>>

(* The child exits, on the sentinel or on SIGTERM, or because it cannot    *)
(* load its model.                                                         *)
ChildExits(w) ==
  /\ closing = w /\ Alive(w)
  /\ child' = [child EXCEPT ![w] = "dead"]
  /\ UNCHANGED <<cacheVars, phase, stack, task, stop, closeVars, error, cancelled, cutOff>>

(* Each of the two waits lasts a grace, the second one after SIGTERM. *)
StageEnd == [join |-> Grace, terminate |-> 2 * Grace]

(* One close is over; after a failed start() the stack unwinds. *)
Closed ==
  /\ closing' = Nothing /\ stage' = "none" /\ spent' = 0 /\ bounded' = TRUE
  /\ phase' = IF phase = "start" THEN "unwind" ELSE phase

(* A join ends with the child or with its time: SIGTERM after the first,   *)
(* SIGKILL, which nothing survives, after the second.                      *)
JoinEnds ==
  /\ closing \in Workers
  /\ \/ ~Alive(closing) /\ Closed /\ UNCHANGED child
     \/ /\ Alive(closing) /\ spent = StageEnd[stage]
        /\ \/ /\ stage = "join" /\ stage' = "terminate"
              /\ UNCHANGED <<closing, spent, bounded, phase, child>>
           \/ /\ stage = "terminate" /\ Closed
              /\ child' = [child EXCEPT ![closing] = "dead"]
  /\ UNCHANGED <<cacheVars, stack, task, stop, error, cancelled, cutOff>>

(* wait_for() gives up on an adapter's aclose() when the budget ends.  A   *)
(* sink's device closes or hangs for as long; the stack cannot tell.       *)
GivesUp ==
  /\ closing # Nothing /\ bounded /\ (closing \in Workers => spent = Budget)
  /\ Closed
  /\ UNCHANGED <<cacheVars, child, stack, task, stop, error, cancelled, cutOff>>

(* Time passes while nothing that is due is undone. *)
Tick ==
  /\ closing \in Workers /\ Alive(closing)
  /\ spent < StageEnd[stage] /\ (bounded => spent < Budget)
  /\ spent' = spent + 1
  /\ UNCHANGED <<cacheVars, phase, child, stack, task, stop, closing, stage, bounded,
                 error, cancelled, cutOff>>

Return ==
  /\ phase = "unwind" /\ closing = Nothing /\ stack = <<>>
  /\ phase' = "returned"
  /\ UNCHANGED <<cacheVars, child, stack, task, stop, closeVars, error, cancelled, cutOff>>

---------------------------------------------------------------------------
(* Cancellation from outside, wherever run_session is suspended. *)

CancelPrefetch ==
  /\ phase = "prefetch" /\ phase' = "abort"
  /\ error' = "cancelled"
  /\ UNCHANGED <<child, stack, task, stop, closeVars, cutOff>>

(* start() has no handler for a cancellation, and its close is not yet on  *)
(* the stack.                                                              *)
CancelStart ==
  /\ phase = "start" /\ Closed
  /\ cutOff' = cutOff \cup {Starting}
  /\ error' = "cancelled"
  /\ UNCHANGED <<child, stack, task, stop>>

CancelRun ==
  /\ phase = "run" /\ ~SessionOver
  /\ stop' = stop \cup {"cancel"}
  /\ UNCHANGED <<phase, child, stack, task, closeVars, error, cutOff>>

(* One aclose() is cut short; the stack goes on with the next. *)
CancelClose ==
  /\ phase = "unwind" /\ closing # Nothing /\ Closed
  /\ cutOff' = cutOff \cup ({closing} \cap Workers)
  /\ error' = "cancelled"
  /\ UNCHANGED <<child, stack, task, stop>>

Cancel ==
  /\ ~cancelled /\ cancelled' = TRUE
  /\ (CancelPrefetch \/ CancelStart \/ CancelRun \/ CancelClose)
  /\ UNCHANGED cacheVars

(* The preflight worker's aclose() reaps the child, or finds it gone. *)
PreflightReaped ==
  /\ phase = "abort" /\ phase' = "unwind"
  /\ IF at[Preflight] \in Resolving THEN Die(Preflight) ELSE UNCHANGED cacheVars
  /\ UNCHANGED <<child, stack, task, stop, closeVars, error, cancelled, cutOff>>

Cache ==
  /\ \E p \in Procs : CacheStep(p) \/ Die(p)
  /\ UNCHANGED <<phase, child, stack, task, stop, closeVars, error, cancelled, cutOff>>

Next ==
  \/ Prefetched \/ Ready \/ StartFails \/ OpenDevices
  \/ (\E t \in Tasks : TaskEnds(t)) \/ Sigint \/ SessionEnds
  \/ CloseNext \/ (\E w \in Workers : ChildExits(w))
  \/ JoinEnds \/ GivesUp \/ Tick \/ Return
  \/ Cancel \/ PreflightReaped \/ Cache

Spec == Init /\ [][Next]_vars

(* The loop runs what is ready, and downloads end one way or another.      *)
(* Nothing is assumed of the tasks of the sessions: one may run for ever,  *)
(* asked to end or not.                                                    *)
FairSpec ==
  /\ Spec
  /\ WF_vars(Prefetched) /\ WF_vars(Ready \/ StartFails) /\ WF_vars(OpenDevices)
  /\ WF_vars(SessionEnds) /\ WF_vars(CloseNext) /\ WF_vars(JoinEnds)
  /\ WF_vars(GivesUp) /\ WF_vars(Tick) /\ WF_vars(Return) /\ WF_vars(PreflightReaped)
  /\ \A p \in Procs : WF_vars(Cache /\ CacheStep(p))

---------------------------------------------------------------------------

TypeOK ==
  /\ CacheTypeOK
  /\ phase \in {"prefetch", "abort", "start", "open", "run", "unwind", "returned"}
  /\ child \in [Workers -> {"none", "loading", "up", "dead"}]
  /\ stack \in Seq(Workers \cup Channels)
  /\ task \in [Tasks -> {"none", "running", "done", "failed", "cancelled"}]
  /\ stop \subseteq {"sigint", "cancel"}
  /\ closing \in Workers \cup Channels \cup {Nothing}
  /\ stage \in {"none", "join", "terminate", "sink"}
  /\ spent \in 0..Budget /\ bounded \in BOOLEAN
  /\ error \in {"none", "failed", "cancelled"}
  /\ cancelled \in BOOLEAN
  /\ cutOff \subseteq Workers
  /\ phase = "start" => Cardinality({w \in Workers : child[w] = "loading"}) <= 1

(* When run_session is back, no child process is left, unless a            *)
(* cancellation landed exactly in the wait for it to start or to close.    *)
(* Stubborn children and failed starts do not matter: the three stages of  *)
(* a worker's close fit in the budget around it (runtime.py:406            *)
(* _start_adapter, model_worker.py:310 aclose).                            *)
ReapedOnReturn ==
  phase = "returned" =>
    /\ \A w \in Workers \ cutOff : ~Alive(w)
    /\ at[Preflight] \notin Resolving

(* "Cancellation or Ctrl-C closes them exactly once and leaves no          *)
(* background tasks, audio threads, or child processes"                    *)
(* (docs/plans/2026-07-16-adapters-plan.md:59): said of any cancellation,  *)
(* one that arrives while a model is being loaded too.                     *)
NoChildIsLeft ==
  phase = "returned" => \A w \in Workers : ~Alive(w)

(* Nothing is closed under a task that still runs: "nothing keeps running  *)
(* behind the exit stack's cleanup" (runtime.py:556 _run_cancellable).     *)
NothingRunsBehindCleanup ==
  phase \in {"unwind", "returned"} => \A t \in Tasks : task[t] # "running"

(* run_session raises when anything failed or the run was cancelled from   *)
(* outside, and is quiet only when every task ended of itself or the user  *)
(* pressed Ctrl-C (runtime.py:550 _run_cancellable).                       *)
OutcomeIsTrue ==
  phase = "returned" =>
    IF error = "none"
      THEN \/ "sigint" \in stop /\ ~AnyFailed
           \/ \A t \in Tasks : task[t] = "done"
      ELSE error = "failed" => AnyFailed \/ \A t \in Tasks : task[t] = "none"

(* No child loads a model before every artifact is there, and what is in   *)
(* the cache under its name is always the verified file (models.py:392     *)
(* _download_verified).                                                    *)
LoadsVerifiedModels ==
  /\ \A a \in Names : file[a] # "bad"
  /\ (\E w \in Workers : child[w] # "none") => \A a \in Names : file[a] = "good"

(* Startup ends: a preflight that waits for another process's download     *)
(* gets its turn or the finished file, even when that process is killed.   *)
StartupSettles == phase = "prefetch" ~> phase \in {"run", "returned"}

(* A task hangs that is asked to end and does not: a cancelled pipeline    *)
(* can, at pipeline.py:301 (README, section 6).                            *)
Hangs(t) == task[t] = "running" /\ Asked(t[1])

(* A stop, or a failure of any task, reaches every task of both channels,  *)
(* and run_session is back unless one of them then hangs for ever.         *)
StopReturns ==
  (\A t \in Tasks : []<>~Hangs(t)) =>
    ((stop # {} \/ AnyFailed \/ error # "none") ~> phase = "returned")

(***************************************************************************)
(* The cache between processes: nobody loses the file it is writing, and   *)
(* only verified files are loaded (models.py _download_verified,           *)
(* _clean_stale_parts).                                                    *)
(***************************************************************************)
CacheIsSound == PartsAreSpared /\ LoadsVerifiedModels

(***************************************************************************)
(* What run_session leaves behind when it is back: no child, no task, and  *)
(* an outcome that tells what happened (runtime.py _run_cancellable,       *)
(* run_session).                                                           *)
(***************************************************************************)
ReturnsClean ==
  /\ TypeOK
  /\ ReapedOnReturn
  /\ NothingRunsBehindCleanup
  /\ OutcomeIsTrue

(***************************************************************************)
(* run_session starts or fails, and comes back when it is stopped or       *)
(* anything fails, once the tasks it asks to end have ended.               *)
(***************************************************************************)
RunEnds == StartupSettles /\ StopReturns
===========================================================================
