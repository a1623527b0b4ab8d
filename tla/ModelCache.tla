---------------------------- MODULE ModelCache -----------------------------
(***************************************************************************)
(* The directly managed artifacts of ModelManager in models.py: processes  *)
(* that share one cache directory resolve the same artifacts in the same   *)
(* order, download what is missing under a lock file per artifact, and may *)
(* be killed at any moment.                                                *)
(*                                                                         *)
(* The interpreter's preflight child and an `interpret-live models         *)
(* download` beside it are two such processes.  The Hugging Face snapshots *)
(* are the Hub library's business and are left out.                        *)
(***************************************************************************)
EXTENDS Naturals, Sequences

CONSTANTS
  Procs,       \* the processes that use the cache
  Artifacts,   \* the artifacts of a voice, in the order of resolution
  SweptWith,   \* for an artifact, those whose partial files have names that
               \* begin with its own: "voice.onnx" begins "voice.onnx.json"
  MayBeOffline,\* the processes that may run with --offline
  Retries      \* _RETRIES

Names == {Artifacts[i] : i \in DOMAIN Artifacts}
Nobody == "nobody"

ASSUME CacheAssumption ==
  /\ Retries \in Nat \ {0} /\ MayBeOffline \subseteq Procs /\ Nobody \notin Procs
  /\ Artifacts \in Seq(Names) /\ Artifacts # <<>>
  /\ SweptWith \in [Names -> SUBSET Names]
  /\ \A a \in Names : a \in SweptWith[a]

(* What is swept with an artifact is resolved with it or after it: the     *)
(* model of a voice comes first, and the config's name begins with its own.*)
ASSUME SweepAssumption ==
  \A i, j \in DOMAIN Artifacts : Artifacts[j] \in SweptWith[Artifacts[i]] => i <= j

VARIABLES
  file,      \* what the cache holds under an artifact's name
  part,      \* the partial file of an artifact, one for each process
  lock,      \* the holder of the lock file of an artifact, or Nobody
  at,        \* where a process is
  item,      \* which artifact it resolves
  tries,     \* its download attempts of that artifact
  offline,   \* _offline
  missing    \* what it found missing offline

cacheVars == <<file, part, lock, at, item, tries, offline, missing>>

Wanted(p) == Artifacts[item[p]]

(* The steps of a process that is downloading into its partial file. *)
Downloading == {"fetching", "renaming"}
Resolving   == Downloading \cup {"idle", "checking", "waiting", "holding", "fetching next"}

CacheInit ==
  /\ file = [a \in Names |-> "none"]
  /\ part = [ap \in Names \X Procs |-> "none"]
  /\ lock = [a \in Names |-> Nobody]
  /\ at = [p \in Procs |-> "idle"]
  /\ item = [p \in Procs |-> 1] /\ tries = [p \in Procs |-> 0]
  /\ offline \in {o \in [Procs -> BOOLEAN] : \A p \in Procs : o[p] => p \in MayBeOffline}
  /\ missing = [p \in Procs |-> {}]

(* An artifact under its own name is trusted. *)
Complete(a) == file[a] # "none"

(* What a process knew ends with it. *)
Forget(p) == item' = [item EXCEPT ![p] = 1] /\ tries' = [tries EXCEPT ![p] = 0]

---------------------------------------------------------------------------
(* The artifacts one after the other. *)

(* The resolution moves on; with the last artifact it ends, and reports    *)
(* everything that was missing at once.                                    *)
MoveOn(p, lost) ==
  /\ missing' = [missing EXCEPT ![p] = lost]
  /\ IF item[p] < Len(Artifacts)
       THEN item' = [item EXCEPT ![p] = @ + 1] /\ at' = [at EXCEPT ![p] = "checking"]
       ELSE /\ at' = [at EXCEPT ![p] = IF lost = {} THEN "resolved" ELSE "failed"]
            /\ item' = [item EXCEPT ![p] = 1]

Resolve(p) ==
  /\ at[p] = "idle"
  /\ at' = [at EXCEPT ![p] = "checking"]
  /\ UNCHANGED <<file, part, lock, item, tries, offline, missing>>

(* The artifact is there, it is missing offline, or it has to be fetched. *)
Check(p) ==
  /\ at[p] = "checking"
  /\ \/ /\ Complete(Wanted(p)) \/ offline[p]
        /\ MoveOn(p, missing[p] \cup (IF Complete(Wanted(p)) THEN {} ELSE {Wanted(p)}))
     \/ /\ ~Complete(Wanted(p)) /\ ~offline[p]
        /\ at' = [at EXCEPT ![p] = "waiting"]
        /\ UNCHANGED <<item, missing>>
  /\ UNCHANGED <<file, part, lock, tries, offline>>

Lock(p) ==
  /\ at[p] = "waiting" /\ lock[Wanted(p)] = Nobody
  /\ lock' = [lock EXCEPT ![Wanted(p)] = p]
  /\ at' = [at EXCEPT ![p] = "holding"]
  /\ UNCHANGED <<file, part, item, tries, offline, missing>>

---------------------------------------------------------------------------
(* The download, under the lock. *)

(* The lock file without p. *)
Unlocked(p) == [lock EXCEPT ![Wanted(p)] = Nobody]

(* Mutant of CompletedMeanwhile: what was seen before the lock is trusted. *)
NeverRechecked(p) == FALSE

(* Another process completed it while this one waited for the lock. *)
CompletedMeanwhile(p) == Complete(Wanted(p))

(* Under the lock p looks once more, and removes what killed downloads     *)
(* have left behind.                                                       *)
Recheck(p) ==
  /\ at[p] = "holding"
  /\ IF CompletedMeanwhile(p)
       THEN MoveOn(p, missing[p]) /\ lock' = Unlocked(p) /\ UNCHANGED <<part, tries>>
       ELSE /\ part' = [ap \in DOMAIN part |->
                          IF ap[1] \in SweptWith[Wanted(p)] THEN "none" ELSE part[ap]]
            /\ tries' = [tries EXCEPT ![p] = 1]
            /\ at' = [at EXCEPT ![p] = "fetching next"]
            /\ UNCHANGED <<lock, item, missing>>
  /\ UNCHANGED <<file, offline>>

PartIs(p, content) == part' = [part EXCEPT ![<<Wanted(p), p>>] = content]

(* The fetcher opens the partial file... *)
Fetch(p) ==
  /\ at[p] = "fetching next"
  /\ PartIs(p, "open")
  /\ at' = [at EXCEPT ![p] = "fetching"]
  /\ UNCHANGED <<file, lock, item, tries, offline, missing>>

(* The resolution fails: the partial file goes and the lock is released. *)
GiveUp(p) ==
  /\ PartIs(p, "none") /\ lock' = Unlocked(p)
  /\ at' = [at EXCEPT ![p] = "failed"]
  /\ Forget(p)
  /\ UNCHANGED <<file, offline, missing>>

(* An attempt that failed for a passing reason is repeated, up to Retries. *)
TryAgain(p) ==
  IF tries[p] = Retries THEN GiveUp(p)
  ELSE /\ PartIs(p, "none")
       /\ tries' = [tries EXCEPT ![p] = @ + 1]
       /\ at' = [at EXCEPT ![p] = "fetching next"]
       /\ UNCHANGED <<file, lock, item, offline, missing>>

(* The download breaks: a refusal is final, a broken connection is not. *)
FetchBreaks(p) == at[p] = "fetching" /\ (GiveUp(p) \/ TryAgain(p))

(* The digest of the partial file is the expected one. *)
Verified(content) == content = "good"

(* The download ends, with all the bytes or with others (a body cut short):  *)
(* a wrong digest is final, and a file that is gone is an OSError.         *)
FetchEnds(p) ==
  /\ at[p] = "fetching"
  /\ IF part[<<Wanted(p), p>>] = "none" THEN TryAgain(p)
     ELSE \E content \in {"good", "bad"} :
            IF Verified(content)
              THEN /\ PartIs(p, content)
                   /\ at' = [at EXCEPT ![p] = "renaming"]
                   /\ UNCHANGED <<file, lock, item, tries, offline, missing>>
              ELSE GiveUp(p)

(* os.replace() *)
Rename(p) ==
  /\ at[p] = "renaming"
  /\ IF part[<<Wanted(p), p>>] = "none" THEN TryAgain(p)
     ELSE /\ file' = [file EXCEPT ![Wanted(p)] = part[<<Wanted(p), p>>]]
          /\ PartIs(p, "none") /\ lock' = Unlocked(p)
          /\ MoveOn(p, missing[p])
          /\ tries' = [tries EXCEPT ![p] = 0]
          /\ UNCHANGED offline

(* The process is killed: its lock goes with it, its partial file stays. *)
Die(p) ==
  /\ at[p] \in Resolving
  /\ at' = [at EXCEPT ![p] = "dead"]
  /\ lock' = [a \in Names |-> IF lock[a] = p THEN Nobody ELSE lock[a]]
  /\ Forget(p)
  /\ UNCHANGED <<file, part, offline, missing>>

CacheStep(p) ==
  Resolve(p) \/ Check(p) \/ Lock(p) \/ Recheck(p) \/ Fetch(p) \/ FetchEnds(p)
    \/ FetchBreaks(p) \/ Rename(p)

---------------------------------------------------------------------------

CacheTypeOK ==
  /\ file \in [Names -> {"none", "good", "bad"}]
  /\ part \in [Names \X Procs -> {"none", "open", "good", "bad"}]
  /\ lock \in [Names -> Procs \cup {Nobody}]
  /\ at \in [Procs -> Resolving \cup {"resolved", "failed", "dead"}]
  /\ item \in [Procs -> DOMAIN Artifacts]
  /\ tries \in [Procs -> 0..Retries]
  /\ offline \in [Procs -> BOOLEAN]
  /\ missing \in [Procs -> SUBSET Names]

(* A process that is downloading still has its partial file: the sweep of  *)
(* one that holds another artifact's lock, or the same one's, does not     *)
(* unlink it.  The sweep goes by the beginning of a name, and the config's *)
(* name begins with the model's; it is safe only because the model is      *)
(* resolved first and looked for once more under the lock (models.py       *)
(* _download_verified, _clean_stale_parts).                                *)
PartsAreSpared ==
  \A p \in Procs : at[p] \in Downloading => part[<<Wanted(p), p>>] # "none"
===========================================================================
