--------------------------- MODULE StartupProofs ---------------------------
(***************************************************************************)
(* Startup, shutdown and the model cache, for any processes, artifacts,    *)
(* adapters and sessions: the cache is sound, and run_session comes back   *)
(* clean.                                                                  *)
(*                                                                         *)
(* The cache's invariant CacheInv is about the locks: who is past the lock *)
(* of an artifact holds it, and whatever comes before the artifact in the  *)
(* order of resolution is already there.  That is why the sweep of a stale *)
(* partial file, which goes by the beginning of a name, never takes one    *)
(* from a process that is writing it (SweepSpares).  The run's invariant   *)
(* RunInv says where the close of every living child is, and why the run   *)
(* raises what it raises.                                                  *)
(***************************************************************************)
EXTENDS Startup, SequenceTheorems, FiniteSetTheorems, TLAPS

(* The steps of a process past the lock of its artifact. *)
Guarding == Downloading \cup {"holding", "fetching next"}

(* Only a verified file has the name of an artifact. *)
OnlyVerified == \A a \in Names : file[a] # "bad"

(* Who is past the lock of an artifact holds it. *)
HoldersHold == \A p \in Procs : at[p] \in Guarding => lock[Wanted(p)] = p

(* Only a process that is online gets to a lock, and it misses nothing. *)
OnlineOnly ==
  \A p \in Procs :
    /\ at[p] \in Guarding \cup {"waiting"} => ~offline[p]
    /\ ~offline[p] => missing[p] = {}

(* What comes before the artifact in question is there, or known to miss. *)
EarlierAreThere ==
  \A p \in Procs : \A i \in 1..(item[p] - 1) :
    Complete(Artifacts[i]) \/ Artifacts[i] \in missing[p]

(* Once all is resolved, all is there. *)
ResolvedIsThere == \A p \in Procs : at[p] = "resolved" => \A a \in Names : Complete(a)

(* A partial file is there as long as it is written, and what is about to  *)
(* be renamed is verified.                                                 *)
PartsAreVerified ==
  \A p \in Procs :
    /\ at[p] = "fetching" => part[<<Wanted(p), p>>] # "none"
    /\ at[p] = "renaming" => part[<<Wanted(p), p>>] = "good"

CacheInv ==
  /\ CacheTypeOK /\ OnlyVerified /\ HoldersHold /\ OnlineOnly
  /\ EarlierAreThere /\ ResolvedIsThere /\ PartsAreVerified

---------------------------------------------------------------------------
(* The cache. *)

LEMMA ArtifactFacts ==
  /\ Len(Artifacts) \in Nat \ {0}
  /\ DOMAIN Artifacts = 1..Len(Artifacts)
  /\ \A i \in 1..Len(Artifacts) : Artifacts[i] \in Names
  /\ \A a \in Names : \E i \in 1..Len(Artifacts) : a = Artifacts[i]
  /\ 1 \in DOMAIN Artifacts
BY CacheAssumption, LenProperties, EmptySeq DEF Names

LEMMA WantedType == ASSUME CacheTypeOK, NEW p \in Procs PROVE Wanted(p) \in Names
BY ArtifactFacts DEF CacheTypeOK, Wanted

LEMMA CacheInitInv == CacheInit => CacheInv
<1> SUFFICES ASSUME CacheInit PROVE CacheInv
  OBVIOUS
<1>1. CacheTypeOK
  BY ArtifactFacts, CacheAssumption DEF CacheInit, CacheTypeOK, Resolving, Downloading
<1>2. OnlyVerified /\ HoldersHold /\ OnlineOnly /\ ResolvedIsThere /\ PartsAreVerified
  BY DEF CacheInit, OnlyVerified, HoldersHold, OnlineOnly, ResolvedIsThere,
         PartsAreVerified, Guarding, Downloading
<1>3. EarlierAreThere
  BY DEF CacheInit, EarlierAreThere
<1> QED
  BY <1>1, <1>2, <1>3 DEF CacheInv

(* Moving on after an artifact that is there, or recorded as missing. *)
LEMMA MoveOnInv ==
  ASSUME CacheInv, NEW p \in Procs, NEW lost \in SUBSET Names, MoveOn(p, lost),
         missing[p] \subseteq lost, ~offline[p] => lost = {},
         at[p] \in Resolving,
         file' \in [Names -> {"none", "good", "bad"}],
         part' \in [Names \X Procs -> {"none", "open", "good", "bad"}],
         lock' \in [Names -> Procs \cup {Nobody}], tries' \in [Procs -> 0..Retries],
         offline' = offline,
         \A a \in Names : Complete(a) => Complete(a)',
         OnlyVerified',
         file'[Wanted(p)] # "none" \/ Wanted(p) \in lost,
         \A q \in Procs \ {p} : at[q] \in Guarding => lock'[Wanted(q)] = lock[Wanted(q)],
         \A q \in Procs \ {p} :
           at[q] \in Downloading => part'[<<Wanted(q), q>>] = part[<<Wanted(q), q>>]
  PROVE  CacheInv'
<1> USE ArtifactFacts
<1>a. item[p] \in 1..Len(Artifacts) /\ item \in [Procs -> 1..Len(Artifacts)]
  BY DEF CacheInv, CacheTypeOK
<1>b. item' \in [Procs -> 1..Len(Artifacts)]
  <2>1. CASE item[p] < Len(Artifacts)
    <3>1. item' = [item EXCEPT ![p] = @ + 1] /\ item[p] + 1 \in 1..Len(Artifacts)
      BY <2>1, <1>a DEF MoveOn
    <3> QED
      BY <3>1, <1>a
  <2>2. CASE ~(item[p] < Len(Artifacts))
    <3>1. item' = [item EXCEPT ![p] = 1] /\ 1 \in 1..Len(Artifacts)
      BY <2>2 DEF MoveOn
    <3> QED
      BY <3>1, <1>a
  <2> QED
    BY <2>1, <2>2
<1>c. at' \in [Procs -> Resolving \cup {"resolved", "failed", "dead"}]
  BY ZenonT(40) DEF CacheInv, CacheTypeOK, MoveOn, Resolving
<1>d. missing' \in [Procs -> SUBSET Names] /\ offline' \in [Procs -> BOOLEAN]
  BY DEF CacheInv, CacheTypeOK, MoveOn
<1>t. CacheTypeOK'
  BY <1>b, <1>c, <1>d DEF CacheTypeOK
<1>0. \A q \in Procs \ {p} : item'[q] = item[q] /\ at'[q] = at[q] /\ missing'[q] = missing[q] /\ Wanted(q)' = Wanted(q)
  BY DEF CacheInv, CacheTypeOK, MoveOn, Wanted
<1>1. at'[p] \in {"checking", "resolved", "failed"} /\ missing'[p] = lost
  BY DEF CacheInv, CacheTypeOK, MoveOn
<1>2. HoldersHold'
  <2> SUFFICES ASSUME NEW q \in Procs, at'[q] \in Guarding
               PROVE  lock'[Artifacts[item'[q]]] = q
    BY DEF HoldersHold, Wanted, Guarding, Downloading
  <2>1. q # p /\ at[q] \in Guarding
    BY <1>0, <1>1 DEF Guarding, Downloading
  <2>2. lock[Wanted(q)] = q
    BY <2>1 DEF CacheInv, HoldersHold
  <2> QED
    BY <2>1, <2>2, <1>0 DEF Wanted
<1>3. OnlineOnly'
  BY <1>0, <1>1 DEF CacheInv, OnlineOnly, Guarding, Downloading
<1>4. PartsAreVerified'
  BY <1>0, <1>1 DEF CacheInv, PartsAreVerified, Downloading
<1>5. \A i \in 1..item[p] : Complete(Artifacts[i])' \/ Artifacts[i] \in lost
  <2> SUFFICES ASSUME NEW i \in 1..item[p]
               PROVE  Complete(Artifacts[i])' \/ Artifacts[i] \in lost
    OBVIOUS
  <2>1. CASE i = item[p]
    BY <2>1 DEF Wanted, Complete
  <2>2. CASE i < item[p]
    <3>1. i \in 1..(item[p] - 1) /\ i \in 1..Len(Artifacts)
      BY <2>2 DEF CacheInv, CacheTypeOK
    <3>2. Complete(Artifacts[i]) \/ Artifacts[i] \in missing[p]
      BY <3>1 DEF CacheInv, EarlierAreThere
    <3> QED
      BY <3>1, <3>2
  <2> QED
    BY <2>1, <2>2 DEF CacheInv, CacheTypeOK
<1>6. EarlierAreThere'
  <2> SUFFICES ASSUME NEW q \in Procs, NEW i \in 1..(item'[q] - 1)
               PROVE  Complete(Artifacts[i])' \/ Artifacts[i] \in missing'[q]
    BY DEF EarlierAreThere
  <2>1. CASE q = p
    <3>1. i \in 1..item[p]
      BY <2>1 DEF CacheInv, CacheTypeOK, MoveOn
    <3> QED
      BY <3>1, <1>5, <1>1, <2>1
  <2>2. CASE q # p
    <3>1. i \in 1..(item[q] - 1) /\ i \in 1..Len(Artifacts)
      BY <2>2, <1>0 DEF CacheInv, CacheTypeOK
    <3> QED
      BY <3>1, <2>2, <1>0 DEF CacheInv, EarlierAreThere
  <2> QED
    BY <2>1, <2>2
<1>7. ResolvedIsThere'
  <2>1. ASSUME at'[p] = "resolved" PROVE \A a \in Names : Complete(a)'
    <3>1. lost = {} /\ item[p] = Len(Artifacts)
      BY <2>1 DEF CacheInv, CacheTypeOK, MoveOn
    <3> QED
      BY <3>1, <1>5
  <2> QED
    BY <2>1, <1>0 DEF CacheInv, ResolvedIsThere
<1> QED
  BY <1>t, <1>2, <1>3, <1>4, <1>6, <1>7 DEF CacheInv

(* A step of p that leaves the files alone and resolves nothing. *)
LEMMA StayInv ==
  ASSUME CacheInv, NEW p \in Procs, CacheTypeOK',
         file' = file, offline' = offline, missing' = missing,
         \A q \in Procs \ {p} : at'[q] = at[q] /\ item'[q] = item[q],
         item'[p] \in {item[p], 1}, at'[p] # "resolved",
         at'[p] \in Guarding => lock'[Artifacts[item'[p]]] = p,
         at'[p] \in Guarding \cup {"waiting"} => ~offline[p],
         at'[p] = "fetching" => part'[<<Artifacts[item'[p]], p>>] # "none",
         at'[p] = "renaming" => part'[<<Artifacts[item'[p]], p>>] = "good",
         \A q \in Procs \ {p} : at[q] \in Guarding => lock'[Wanted(q)] = lock[Wanted(q)],
         \A q \in Procs \ {p} :
           at[q] \in Downloading => part'[<<Wanted(q), q>>] = part[<<Wanted(q), q>>]
  PROVE  CacheInv'
<1>1. OnlyVerified' /\ OnlineOnly'
  BY DEF CacheInv, OnlyVerified, OnlineOnly, Guarding, Downloading
<1>2. ASSUME NEW q \in Procs, at'[q] \in Guarding PROVE lock'[Artifacts[item'[q]]] = q
  <2>1. CASE q = p
    BY <1>2, <2>1
  <2>2. CASE q # p
    <3>1. at[q] \in Guarding /\ item'[q] = item[q]
      BY <1>2, <2>2
    <3>2. lock[Wanted(q)] = q
      BY <3>1 DEF CacheInv, HoldersHold
    <3> QED
      BY <3>1, <3>2, <2>2 DEF Wanted
  <2> QED
    BY <2>1, <2>2
<1>3. HoldersHold'
  BY <1>2 DEF HoldersHold, Wanted, Guarding, Downloading
<1>4. ASSUME NEW q \in Procs, NEW i \in 1..(item'[q] - 1)
      PROVE  Complete(Artifacts[i])' \/ Artifacts[i] \in missing'[q]
  <2>1. item'[q] = item[q]
    BY <1>4 DEF CacheInv, CacheTypeOK
  <2> QED
    BY <1>4, <2>1 DEF CacheInv, EarlierAreThere, Complete
<1>5. EarlierAreThere'
  BY <1>4 DEF EarlierAreThere, Complete
<1>6. ResolvedIsThere'
  BY DEF CacheInv, ResolvedIsThere, Complete
<1>7. ASSUME NEW q \in Procs, at'[q] \in Downloading
      PROVE  /\ at'[q] = "fetching" => part'[<<Artifacts[item'[q]], q>>] # "none"
             /\ at'[q] = "renaming" => part'[<<Artifacts[item'[q]], q>>] = "good"
  <2>1. CASE q = p
    BY <2>1
  <2>2. CASE q # p
    <3>1. at[q] = at'[q] /\ item'[q] = item[q]
      BY <2>2
    <3> QED
      BY <3>1, <2>2, <1>7 DEF CacheInv, PartsAreVerified, Wanted
  <2> QED
    BY <2>1, <2>2
<1>8. PartsAreVerified'
  BY <1>7 DEF PartsAreVerified, Wanted, Downloading
<1> QED
  BY <1>1, <1>3, <1>5, <1>6, <1>8 DEF CacheInv

LEMMA ResolveInv == ASSUME CacheInv, NEW p \in Procs, Resolve(p) PROVE CacheInv'
<1>1. CacheTypeOK'
  BY DEF CacheInv, CacheTypeOK, Resolve, Resolving
<1>2. at'[p] = "checking"
  BY DEF CacheInv, CacheTypeOK, Resolve
<1> QED
  BY <1>1, <1>2, StayInv DEF Resolve, Guarding, Downloading, CacheInv, CacheTypeOK

LEMMA CheckInv == ASSUME CacheInv, NEW p \in Procs, Check(p) PROVE CacheInv'
<1>w. Wanted(p) \in Names
  BY WantedType DEF CacheInv
<1>1. CASE /\ Complete(Wanted(p)) \/ offline[p]
           /\ MoveOn(p, missing[p] \cup (IF Complete(Wanted(p)) THEN {} ELSE {Wanted(p)}))
  <2> DEFINE lost == missing[p] \cup (IF Complete(Wanted(p)) THEN {} ELSE {Wanted(p)})
  <2>1. lost \in SUBSET Names /\ missing[p] \subseteq lost
    BY <1>w DEF CacheInv, CacheTypeOK
  <2>2. ~offline[p] => lost = {}
    BY <1>1 DEF CacheInv, OnlineOnly
  <2>3. file[Wanted(p)] # "none" \/ Wanted(p) \in lost
    BY DEF Complete
  <2>4. MoveOn(p, lost)
    BY <1>1
  <2>5. UNCHANGED <<file, part, lock, tries, offline>> /\ at[p] \in Resolving
    BY DEF Check, Resolving
  <2>6. OnlyVerified' /\ \A a \in Names : Complete(a) => Complete(a)'
    BY <2>5 DEF CacheInv, OnlyVerified, Complete
  <2> HIDE DEF lost
  <2> QED
    BY <2>1, <2>2, <2>3, <2>4, <2>5, <2>6, MoveOnInv DEF CacheInv, CacheTypeOK
<1>2. CASE /\ ~Complete(Wanted(p)) /\ ~offline[p]
           /\ at' = [at EXCEPT ![p] = "waiting"]
           /\ UNCHANGED <<item, missing>>
  <2>1. CacheTypeOK'
    BY <1>2 DEF CacheInv, CacheTypeOK, Check, Resolving
  <2>2. at'[p] = "waiting"
    BY <1>2 DEF CacheInv, CacheTypeOK
  <2> QED
    BY <1>2, <2>1, <2>2, StayInv DEF Check, Guarding, Downloading, CacheInv, CacheTypeOK
<1> QED
  BY <1>1, <1>2 DEF Check

LEMMA LockInv == ASSUME CacheInv, NEW p \in Procs, Lock(p) PROVE CacheInv'
<1>w. Wanted(p) \in Names
  BY WantedType DEF CacheInv
<1>1. CacheTypeOK'
  BY <1>w DEF CacheInv, CacheTypeOK, Lock, Resolving
<1>2. at'[p] = "holding" /\ lock'[Wanted(p)] = p /\ ~offline[p]
  BY <1>w DEF CacheInv, CacheTypeOK, Lock, OnlineOnly
<1>3. \A q \in Procs \ {p} : at[q] \in Guarding => lock'[Wanted(q)] = lock[Wanted(q)]
  <2> SUFFICES ASSUME NEW q \in Procs \ {p}, at[q] \in Guarding
               PROVE  lock'[Wanted(q)] = lock[Wanted(q)]
    OBVIOUS
  <2>1. lock[Wanted(q)] = q /\ q # Nobody
    BY CacheAssumption DEF CacheInv, HoldersHold
  <2> QED
    BY <2>1, <1>w, WantedType DEF CacheInv, CacheTypeOK, Lock
<1> QED
  BY <1>1, <1>2, <1>3, StayInv DEF Lock, Guarding, Downloading, CacheInv, CacheTypeOK, Wanted

(* The lock of p is not the lock of another process. *)
LEMMA OthersKeepLocks ==
  ASSUME CacheInv, NEW p \in Procs, at[p] \in Guarding,
         NEW q \in Procs \ {p}, at[q] \in Guarding
  PROVE  /\ Wanted(q) # Wanted(p)
         /\ Unlocked(p)[Wanted(q)] = lock[Wanted(q)]
         /\ \A content : [part EXCEPT ![<<Wanted(p), p>>] = content][<<Wanted(q), q>>]
                           = part[<<Wanted(q), q>>]
<1>1. lock[Wanted(p)] = p /\ lock[Wanted(q)] = q
  BY DEF CacheInv, HoldersHold
<1>2. Wanted(p) \in Names /\ Wanted(q) \in Names
  BY WantedType DEF CacheInv
<1> QED
  BY <1>1, <1>2 DEF Unlocked, CacheInv, CacheTypeOK

LEMMA UnlockedType ==
  ASSUME CacheInv, NEW p \in Procs PROVE Unlocked(p) \in [Names -> Procs \cup {Nobody}]
BY DEF Unlocked, CacheInv, CacheTypeOK

(* The sweep of p finds no partial file of a process that is downloading.  *)
LEMMA SweepSpares ==
  ASSUME CacheInv, NEW p \in Procs, at[p] = "holding", ~CompletedMeanwhile(p),
         NEW q \in Procs \ {p}, at[q] \in Downloading
  PROVE  Wanted(q) \notin SweptWith[Wanted(p)]
<1> SUFFICES ASSUME Wanted(q) \in SweptWith[Wanted(p)] PROVE FALSE
  OBVIOUS
<1>1. item[p] \in DOMAIN Artifacts /\ item[q] \in DOMAIN Artifacts
  BY DEF CacheInv, CacheTypeOK
<1>2. item[p] <= item[q]
  BY <1>1, SweepAssumption DEF Wanted
<1>3. missing[q] = {}
  BY DEF CacheInv, OnlineOnly, Guarding
<1>4. Wanted(q) # Wanted(p)
  BY OthersKeepLocks DEF Guarding
<1>5. item[p] \in 1..(item[q] - 1)
  BY <1>1, <1>2, <1>4, ArtifactFacts DEF Wanted
<1>6. Complete(Artifacts[item[p]])
  BY <1>3, <1>5 DEF CacheInv, EarlierAreThere
<1> QED
  BY <1>6 DEF CompletedMeanwhile, Wanted

LEMMA RecheckInv == ASSUME CacheInv, NEW p \in Procs, Recheck(p) PROVE CacheInv'
<1>w. Wanted(p) \in Names /\ at[p] \in Guarding /\ at[p] = "holding" /\ at[p] \in Resolving
  BY WantedType DEF CacheInv, Recheck, Guarding, Resolving
<1>o. ~offline[p] /\ missing[p] = {}
  BY <1>w DEF CacheInv, OnlineOnly
<1>1. CASE CompletedMeanwhile(p)
  <2>1. /\ MoveOn(p, missing[p]) /\ lock' = Unlocked(p)
        /\ UNCHANGED <<file, part, tries, offline>>
    BY <1>1 DEF Recheck
  <2>2. OnlyVerified' /\ \A a \in Names : Complete(a) => Complete(a)'
    BY <2>1 DEF CacheInv, OnlyVerified, Complete
  <2>3. \A q \in Procs \ {p} : at[q] \in Guarding => lock'[Wanted(q)] = lock[Wanted(q)]
    BY <2>1, <1>w, OthersKeepLocks
  <2>4. file'[Wanted(p)] # "none"
    BY <1>1, <2>1 DEF CompletedMeanwhile, Complete
  <2>5. missing[p] \in SUBSET Names
    BY DEF CacheInv, CacheTypeOK
  <2> QED
    BY <2>1, <2>2, <2>3, <2>4, <2>5, <1>w, <1>o, UnlockedType, MoveOnInv
       DEF CacheInv, CacheTypeOK
<1>2. CASE ~CompletedMeanwhile(p)
  <2>1. /\ part' = [ap \in DOMAIN part |->
                      IF ap[1] \in SweptWith[Wanted(p)] THEN "none" ELSE part[ap]]
        /\ tries' = [tries EXCEPT ![p] = 1]
        /\ at' = [at EXCEPT ![p] = "fetching next"]
        /\ UNCHANGED <<file, lock, item, offline, missing>>
    BY <1>2 DEF Recheck
  <2>0. DOMAIN part = Names \X Procs
    BY DEF CacheInv, CacheTypeOK
  <2>p. part' \in [Names \X Procs -> {"none", "open", "good", "bad"}]
    BY <2>0, <2>1 DEF CacheInv, CacheTypeOK
  <2>r. 1 \in 0..Retries /\ tries \in [Procs -> 0..Retries]
    BY CacheAssumption DEF CacheInv, CacheTypeOK
  <2>t. tries' \in [Procs -> 0..Retries]
    BY <2>1, <2>r
  <2>a. at' \in [Procs -> Resolving \cup {"resolved", "failed", "dead"}]
    BY <2>1 DEF CacheInv, CacheTypeOK, Resolving
  <2>2. CacheTypeOK'
    BY <2>1, <2>p, <2>t, <2>a DEF CacheInv, CacheTypeOK
  <2>3. \A q \in Procs \ {p} :
          at[q] \in Downloading => part'[<<Wanted(q), q>>] = part[<<Wanted(q), q>>]
    <3> SUFFICES ASSUME NEW q \in Procs \ {p}, at[q] \in Downloading
                 PROVE  part'[<<Wanted(q), q>>] = part[<<Wanted(q), q>>]
      OBVIOUS
    <3>1. Wanted(q) \notin SweptWith[Wanted(p)]
      BY <1>w, <1>2, SweepSpares
    <3>2. <<Wanted(q), q>> \in DOMAIN part
      BY WantedType DEF CacheInv, CacheTypeOK
    <3> QED
      BY <3>1, <3>2, <2>1
  <2>4. at'[p] = "fetching next" /\ lock'[Artifacts[item'[p]]] = p
    BY <2>1, <1>w DEF CacheInv, CacheTypeOK, HoldersHold, Wanted
  <2>5. \A q \in Procs \ {p} : at'[q] = at[q] /\ item'[q] = item[q]
    BY <2>1 DEF CacheInv, CacheTypeOK
  <2> QED
    BY <2>1, <2>2, <2>3, <2>4, <2>5, <1>o, StayInv
<1> QED
  BY <1>1, <1>2

LEMMA FetchInv == ASSUME CacheInv, NEW p \in Procs, Fetch(p) PROVE CacheInv'
<1>w. Wanted(p) \in Names /\ at[p] \in Guarding
  BY WantedType DEF CacheInv, Fetch, Guarding
<1>o. ~offline[p] /\ lock[Wanted(p)] = p
  BY <1>w DEF CacheInv, OnlineOnly, HoldersHold
<1>1. CacheTypeOK'
  BY <1>w DEF CacheInv, CacheTypeOK, Fetch, PartIs, Resolving, Downloading
<1>2. at'[p] = "fetching" /\ part'[<<Wanted(p), p>>] # "none"
  BY <1>w DEF CacheInv, CacheTypeOK, Fetch, PartIs
<1>3. \A q \in Procs \ {p} :
        at[q] \in Downloading => part'[<<Wanted(q), q>>] = part[<<Wanted(q), q>>]
  BY <1>w, OthersKeepLocks, ZenonT(40) DEF Fetch, PartIs, Guarding
<1>4. \A q \in Procs \ {p} : at'[q] = at[q] /\ item'[q] = item[q]
  BY DEF Fetch, CacheInv, CacheTypeOK
<1> QED
  BY <1>o, <1>1, <1>2, <1>3, <1>4, StayInv DEF Fetch, Wanted

LEMMA GiveUpInv ==
  ASSUME CacheInv, NEW p \in Procs, at[p] \in Downloading, GiveUp(p) PROVE CacheInv'
<1>w. Wanted(p) \in Names /\ at[p] \in Guarding
  BY WantedType DEF CacheInv, Guarding
<1>1. CacheTypeOK'
  BY <1>w, UnlockedType, ArtifactFacts, CacheAssumption
     DEF CacheInv, CacheTypeOK, GiveUp, PartIs, Forget
<1>2. at'[p] = "failed" /\ item'[p] = 1
  BY DEF CacheInv, CacheTypeOK, GiveUp, Forget
<1>3. \A q \in Procs \ {p} : at[q] \in Guarding =>
        /\ lock'[Wanted(q)] = lock[Wanted(q)]
        /\ part'[<<Wanted(q), q>>] = part[<<Wanted(q), q>>]
  BY <1>w, OthersKeepLocks DEF GiveUp, PartIs
<1>4. \A q \in Procs \ {p} : at'[q] = at[q] /\ item'[q] = item[q]
  BY DEF GiveUp, Forget, CacheInv, CacheTypeOK
<1> QED
  BY <1>1, <1>2, <1>3, <1>4, StayInv DEF GiveUp, Guarding, Downloading

LEMMA TryAgainInv ==
  ASSUME CacheInv, NEW p \in Procs, at[p] \in Downloading, TryAgain(p) PROVE CacheInv'
<1>1. CASE tries[p] = Retries
  BY <1>1, GiveUpInv DEF TryAgain
<1>2. CASE tries[p] # Retries
  <2>w. Wanted(p) \in Names /\ at[p] \in Guarding
    BY WantedType DEF CacheInv, Guarding
  <2>o. ~offline[p] /\ lock[Wanted(p)] = p
    BY <2>w DEF CacheInv, OnlineOnly, HoldersHold
  <2>0. /\ PartIs(p, "none") /\ tries' = [tries EXCEPT ![p] = @ + 1]
        /\ at' = [at EXCEPT ![p] = "fetching next"]
        /\ UNCHANGED <<file, lock, item, offline, missing>>
    BY <1>2 DEF TryAgain
  <2>1. tries' \in [Procs -> 0..Retries]
    <3>1. tries \in [Procs -> 0..Retries] /\ Retries \in Nat
      BY CacheAssumption DEF CacheInv, CacheTypeOK
    <3>2. tries[p] + 1 \in 0..Retries
      BY <3>1, <1>2
    <3> QED
      BY <3>1, <3>2, <2>0
  <2>2. CacheTypeOK'
    BY <2>w, <2>0, <2>1 DEF CacheInv, CacheTypeOK, PartIs, Resolving, Downloading
  <2>3. at'[p] = "fetching next"
    BY <2>0 DEF CacheInv, CacheTypeOK
  <2>4. \A q \in Procs \ {p} :
          at[q] \in Downloading => part'[<<Wanted(q), q>>] = part[<<Wanted(q), q>>]
    BY <2>w, <2>0, OthersKeepLocks, ZenonT(40) DEF PartIs, Guarding
  <2>5. \A q \in Procs \ {p} : at'[q] = at[q] /\ item'[q] = item[q]
    BY <2>0 DEF CacheInv, CacheTypeOK
  <2> QED
    BY <2>0, <2>o, <2>2, <2>3, <2>4, <2>5, StayInv DEF Wanted
<1> QED
  BY <1>1, <1>2

LEMMA FetchEndsInv == ASSUME CacheInv, NEW p \in Procs, FetchEnds(p) PROVE CacheInv'
<1>w. Wanted(p) \in Names /\ at[p] \in Guarding /\ at[p] \in Downloading
  BY WantedType DEF CacheInv, FetchEnds, Guarding, Downloading
<1>o. ~offline[p] /\ lock[Wanted(p)] = p
  BY <1>w DEF CacheInv, OnlineOnly, HoldersHold
<1>1. CASE TryAgain(p) \/ GiveUp(p)
  BY <1>1, <1>w, TryAgainInv, GiveUpInv
<1>2. CASE /\ PartIs(p, "good") /\ at' = [at EXCEPT ![p] = "renaming"]
           /\ UNCHANGED <<file, lock, item, tries, offline, missing>>
  <2>1. CacheTypeOK'
    BY <1>2, <1>w DEF CacheInv, CacheTypeOK, PartIs, Resolving, Downloading
  <2>2. at'[p] = "renaming" /\ part'[<<Wanted(p), p>>] = "good"
    BY <1>2, <1>w DEF CacheInv, CacheTypeOK, PartIs
  <2>3. \A q \in Procs \ {p} :
          at[q] \in Downloading => part'[<<Wanted(q), q>>] = part[<<Wanted(q), q>>]
    BY <1>2, <1>w, OthersKeepLocks, ZenonT(40) DEF PartIs, Guarding
  <2>4. \A q \in Procs \ {p} : at'[q] = at[q] /\ item'[q] = item[q]
    BY <1>2 DEF CacheInv, CacheTypeOK
  <2> QED
    BY <1>2, <1>o, <2>1, <2>2, <2>3, <2>4, StayInv DEF Wanted
<1> QED
  BY <1>1, <1>2 DEF FetchEnds, Verified

LEMMA RenameInv == ASSUME CacheInv, NEW p \in Procs, Rename(p) PROVE CacheInv'
<1>w. /\ Wanted(p) \in Names /\ at[p] \in Guarding /\ at[p] \in Downloading
      /\ at[p] \in Resolving
  BY WantedType DEF CacheInv, Rename, Guarding, Downloading, Resolving
<1>o. ~offline[p] /\ missing[p] = {} /\ part[<<Wanted(p), p>>] = "good"
  BY <1>w DEF CacheInv, OnlineOnly, PartsAreVerified, Rename
<1>1. /\ file' = [file EXCEPT ![Wanted(p)] = "good"]
      /\ PartIs(p, "none") /\ lock' = Unlocked(p)
      /\ MoveOn(p, {}) /\ tries' = [tries EXCEPT ![p] = 0]
      /\ UNCHANGED offline
  BY <1>o DEF Rename
<1>2. /\ file' \in [Names -> {"none", "good", "bad"}]
      /\ part' \in [Names \X Procs -> {"none", "open", "good", "bad"}]
      /\ lock' \in [Names -> Procs \cup {Nobody}]
      /\ tries' \in [Procs -> 0..Retries]
  BY <1>1, <1>w, UnlockedType, CacheAssumption DEF PartIs, CacheInv, CacheTypeOK
<1>3. OnlyVerified' /\ \A a \in Names : Complete(a) => Complete(a)'
  BY <1>1, <1>w DEF CacheInv, CacheTypeOK, OnlyVerified, Complete
<1>4. file'[Wanted(p)] # "none"
  BY <1>1, <1>w DEF CacheInv, CacheTypeOK
<1>5. \A q \in Procs \ {p} : at[q] \in Guarding =>
        /\ lock'[Wanted(q)] = lock[Wanted(q)]
        /\ part'[<<Wanted(q), q>>] = part[<<Wanted(q), q>>]
  BY <1>1, <1>w, OthersKeepLocks DEF PartIs
<1>6. {} \in SUBSET Names /\ missing[p] \subseteq {}
  BY <1>o
<1> QED
  BY <1>1, <1>2, <1>3, <1>4, <1>5, <1>6, <1>w, MoveOnInv DEF Guarding

LEMMA DieInv == ASSUME CacheInv, NEW p \in Procs, Die(p) PROVE CacheInv'
<1>1. CacheTypeOK'
  BY ArtifactFacts, CacheAssumption DEF CacheInv, CacheTypeOK, Die, Forget
<1>2. at'[p] = "dead" /\ item'[p] = 1
  BY DEF CacheInv, CacheTypeOK, Die, Forget
<1>3. \A q \in Procs \ {p} : at[q] \in Guarding => lock'[Wanted(q)] = lock[Wanted(q)]
  BY WantedType DEF CacheInv, HoldersHold, Die
<1>4. \A q \in Procs \ {p} : at'[q] = at[q] /\ item'[q] = item[q]
  BY DEF Die, Forget, CacheInv, CacheTypeOK
<1> QED
  BY <1>1, <1>2, <1>3, <1>4, StayInv DEF Die, Guarding, Downloading

LEMMA CacheStepInv ==
  ASSUME CacheInv, NEW p \in Procs, CacheStep(p) \/ Die(p) PROVE CacheInv'
BY ResolveInv, CheckInv, LockInv, RecheckInv, FetchInv, FetchEndsInv, GiveUpInv,
   TryAgainInv, RenameInv, DieInv DEF CacheStep, FetchBreaks, Downloading

LEMMA CacheStutters == ASSUME CacheInv, UNCHANGED cacheVars PROVE CacheInv'
BY DEF CacheInv, cacheVars, CacheTypeOK, OnlyVerified, HoldersHold, OnlineOnly,
       EarlierAreThere, ResolvedIsThere, PartsAreVerified, Complete, Wanted

---------------------------------------------------------------------------
(* The run. *)

(* Before the tasks of the sessions exist, and after they have ended. *)
Before == {"prefetch", "abort", "start", "open"}
After  == {"unwind", "returned"}

RunTypes ==
  /\ phase \in Before \cup After \cup {"run"}
  /\ child \in [Workers -> {"none", "loading", "up", "dead"}]
  /\ stack \in Seq(Workers \cup Channels)
  /\ task \in [Tasks -> {"none", "running", "done", "failed", "cancelled"}]
  /\ stop \subseteq {"sigint", "cancel"}
  /\ closing \in Workers \cup Channels \cup {Nothing}
  /\ stage \in {"none", "join", "terminate", "sink"}
  /\ spent \in Nat /\ bounded \in BOOLEAN
  /\ error \in {"none", "failed", "cancelled"}
  /\ cancelled \in BOOLEAN
  /\ cutOff \subseteq Workers

(* What is closed, how far, and when: a worker's close stays within the    *)
(* stages of its join.                                                     *)
ClosingShape ==
  /\ closing \in Workers <=> stage \in {"join", "terminate"}
  /\ spent <= (IF closing \in Workers THEN StageEnd[stage] ELSE 0)
  /\ closing # Nothing => phase \in {"start", "unwind"}
  /\ phase = "start" /\ closing # Nothing => closing \in Workers /\ ~bounded

(* Only the adapter whose start() is awaited has a child that loads. *)
OneLoads ==
  /\ phase = "prefetch" => \A w \in Workers : child[w] = "none"
  /\ phase = "start" =>
       \E w \in Workers : /\ \A v \in Workers : child[v] = "loading" => v = w
                          /\ IF closing = Nothing THEN child[w] = "loading" ELSE closing = w

(* The sequence s has r somewhere. *)
Holds(s, r) == \E k \in 1..Len(s) : s[k] = r

(* While the stages of a close fit in its budget, the close of a child     *)
(* that lives is on the stack, under way, or the one start() would make.   *)
AliveIsKept ==
  2 * Grace < Budget => \A w \in Workers \ cutOff : Alive(w) =>
    \/ Holds(stack, w) \/ closing = w
    \/ phase = "start" /\ closing = Nothing /\ child[w] = "loading"

(* Back means that nothing is left to close. *)
ReturnedEmpty == phase = "returned" => stack = <<>> /\ closing = Nothing

(* Past the preflight, its process resolves no more. *)
PreflightDone == phase \notin {"prefetch", "abort"} => at[Preflight] \notin Resolving

(* The tasks exist between the devices' opening and the exit stack, and    *)
(* none is cancelled without a reason.                                     *)
TasksShape ==
  /\ phase \in Before => \A t \in Tasks : task[t] = "none"
  /\ phase = "run" => \A t \in Tasks : task[t] # "none"
  /\ phase \in After => \A t \in Tasks : task[t] # "running"
  /\ \A t \in Tasks : task[t] = "cancelled" => stop # {} \/ AnyFailed

(* What is being raised, and why. *)
ErrorShape ==
  /\ phase \in {"prefetch", "open", "run"} => error = "none"
  /\ phase = "abort" => error = "cancelled"
  /\ phase = "start" => error = IF closing = Nothing THEN "none" ELSE "failed"
  /\ phase \in After =>
       IF error = "none"
         THEN \/ "sigint" \in stop /\ ~AnyFailed
              \/ \A t \in Tasks : task[t] = "done"
         ELSE error = "failed" => AnyFailed \/ \A t \in Tasks : task[t] = "none"

(* No child is spawned before every file is there. *)
FilesFirst ==
  (phase \in {"start", "open", "run"} \/ \E w \in Workers : child[w] # "none")
    => \A a \in Names : Complete(a)

RunInv ==
  /\ RunTypes /\ ClosingShape /\ OneLoads /\ AliveIsKept /\ ReturnedEmpty
  /\ PreflightDone /\ TasksShape /\ ErrorShape /\ FilesFirst


LEMMA FailedIsATask ==
  /\ AnyFailed <=> \E t \in Tasks : task[t] = "failed"
  /\ AnyFailed' <=> \E t \in Tasks : task'[t] = "failed"
  /\ SessionOver <=> \A t \in Tasks : task[t] # "running"
BY DEF AnyFailed, Failed, Tasks, SessionOver, Over

LEMMA NamesApart ==
  /\ \A w \in Workers : w \notin Channels /\ w # Nothing
  /\ \A c \in Channels : c # Nothing
BY StartupAssumption

LEMMA GraceFacts ==
  /\ Grace \in Nat \ {0} /\ Budget \in Nat \ {0}
  /\ StageEnd["join"] = Grace /\ StageEnd["terminate"] = 2 * Grace
  /\ Grace < 2 * Grace
BY StartupAssumption DEF StageEnd

LEMMA RunInitInv == Init => RunInv
<1> SUFFICES ASSUME Init PROVE RunInv
  OBVIOUS
<1>1. RunTypes
  BY EmptySeq DEF Init, RunTypes, Before, After
<1>2. ClosingShape /\ OneLoads /\ AliveIsKept /\ ReturnedEmpty /\ PreflightDone
  BY NamesApart DEF Init, ClosingShape, OneLoads, AliveIsKept, ReturnedEmpty, PreflightDone, Alive
<1>3. TasksShape /\ ErrorShape /\ FilesFirst
  BY DEF Init, TasksShape, ErrorShape, FilesFirst, Before, After
<1> QED
  BY <1>1, <1>2, <1>3 DEF RunInv

(* The children of StartFrom. *)
LEMMA StartFromInv ==
  ASSUME RunInv, NEW i \in Nat \ {0}, NEW children \in [Workers -> {"none", "loading", "up", "dead"}],
         \A w \in Workers : children[w] # "loading", StartFrom(i, children)
  PROVE  /\ child' \in [Workers -> {"none", "loading", "up", "dead"}]
         /\ phase' \in {"start", "open"}
         /\ \A w \in Workers : phase' = "open" => child'[w] = children[w]
         /\ phase' = "start" =>
              \E w \in Workers : /\ child'[w] = "loading"
                                 /\ \A v \in Workers : v # w => child'[v] = children[v]
<1>1. CASE i <= Len(Adapters)
  <2>1. Adapters[i] \in Workers
    BY <1>1, StartupAssumption, LenProperties DEF Workers
  <2> QED
    BY <1>1, <2>1 DEF StartFrom
<1>2. CASE ~(i <= Len(Adapters))
  BY <1>2 DEF StartFrom
<1> QED
  BY <1>1, <1>2

LEMMA PrefetchedInv == ASSUME CacheInv, RunInv, Prefetched PROVE RunInv'
<1>0. /\ phase = "prefetch" /\ closing = Nothing /\ error = "none"
      /\ \A w \in Workers : child[w] = "none"
      /\ \A t \in Tasks : task[t] = "none"
      /\ UNCHANGED <<cacheVars, stack, task, stop, closeVars, cancelled, cutOff>>
  BY DEF Prefetched, RunInv, ClosingShape, OneLoads, ErrorShape, TasksShape, Before
<1>1. CASE at[Preflight] = "resolved" /\ StartFrom(1, child) /\ UNCHANGED error
  <2>1. /\ child' \in [Workers -> {"none", "loading", "up", "dead"}]
        /\ phase' \in {"start", "open"}
        /\ \A w \in Workers : phase' = "open" => child'[w] = child[w]
        /\ phase' = "start" =>
             \E w \in Workers : /\ child'[w] = "loading"
                                /\ \A v \in Workers : v # w => child'[v] = child[v]
    BY <1>0, <1>1, StartFromInv DEF RunInv, RunTypes
  <2>2. RunTypes'
    BY <1>0, <1>1, <2>1 DEF RunInv, RunTypes, Before, closeVars
  <2>3. ClosingShape' /\ ReturnedEmpty'
    BY <1>0, <2>1 DEF RunInv, ClosingShape, ReturnedEmpty, closeVars
  <2>4. OneLoads' /\ AliveIsKept'
    BY <1>0, <2>1 DEF RunInv, OneLoads, AliveIsKept, Alive, closeVars
  <2>5. PreflightDone'
    BY <1>0, <1>1 DEF PreflightDone, cacheVars, Resolving, Downloading
  <2>6. TasksShape' /\ ErrorShape'
    BY <1>0, <1>1, <2>1 DEF TasksShape, ErrorShape, Before, After, closeVars
  <2>7. FilesFirst'
    BY <1>0, <1>1, StartupAssumption
       DEF CacheInv, ResolvedIsThere, FilesFirst, Complete, cacheVars
  <2> QED
    BY <2>2, <2>3, <2>4, <2>5, <2>6, <2>7 DEF RunInv
<1>2. CASE /\ at[Preflight] \in {"failed", "dead"}
           /\ phase' = "unwind" /\ error' = "failed" /\ UNCHANGED child
  <2>2. RunTypes'
    BY <1>0, <1>2 DEF RunInv, RunTypes, After, closeVars
  <2>3. ClosingShape' /\ ReturnedEmpty'
    BY <1>0, <1>2 DEF RunInv, ClosingShape, ReturnedEmpty, closeVars
  <2>4. OneLoads' /\ AliveIsKept'
    BY <1>0, <1>2 DEF RunInv, OneLoads, AliveIsKept, Alive, closeVars
  <2>5. PreflightDone'
    BY <1>0, <1>2 DEF PreflightDone, cacheVars, Resolving, Downloading
  <2>6. TasksShape' /\ ErrorShape'
    BY <1>0, <1>2 DEF TasksShape, ErrorShape, Before, After, closeVars
  <2>7. FilesFirst'
    BY <1>0, <1>2 DEF FilesFirst, Complete, cacheVars
  <2> QED
    BY <2>2, <2>3, <2>4, <2>5, <2>6, <2>7 DEF RunInv
<1> QED
  BY <1>1, <1>2 DEF Prefetched

(* What is under the new top of the stack is still on it. *)
LEMMA PushedStays ==
  ASSUME NEW S, NEW s \in Seq(S), NEW more \in Seq(S)
  PROVE  /\ more \o s \in Seq(S)
         /\ \A r : Holds(s, r) \/ Holds(more, r) => Holds(more \o s, r)
<1>1. /\ more \o s \in Seq(S) /\ Len(more \o s) = Len(more) + Len(s)
      /\ \A k \in 1..(Len(more) + Len(s)) :
           (more \o s)[k] = IF k <= Len(more) THEN more[k] ELSE s[k - Len(more)]
  BY ConcatProperties
<1>2. Len(s) \in Nat /\ Len(more) \in Nat
  BY LenProperties
<1>3. ASSUME NEW r, NEW k \in 1..Len(s), s[k] = r PROVE Holds(more \o s, r)
  <2>1. k + Len(more) \in 1..(Len(more) + Len(s)) /\ ~(k + Len(more) <= Len(more))
        /\ (k + Len(more)) - Len(more) = k
    BY <1>2
  <2> QED
    BY <1>1, <1>3, <2>1 DEF Holds
<1>4. ASSUME NEW r, NEW k \in 1..Len(more), more[k] = r PROVE Holds(more \o s, r)
  BY <1>1, <1>2, <1>4 DEF Holds
<1>5. \A r : Holds(s, r) \/ Holds(more, r) => Holds(more \o s, r)
  BY <1>3, <1>4 DEF Holds
<1> QED
  BY <1>1, <1>5

LEMMA StartingIs ==
  ASSUME RunInv, phase = "start"
  PROVE  /\ Starting \in Workers
         /\ closing = Nothing => child[Starting] = "loading"
         /\ closing # Nothing => closing = Starting
         /\ \A v \in Workers : child[v] = "loading" => v = Starting
<1>1. PICK w \in Workers :
        /\ \A v \in Workers : child[v] = "loading" => v = w
        /\ IF closing = Nothing THEN child[w] = "loading" ELSE closing = w
  BY DEF RunInv, OneLoads
<1>2. Starting = w
  <2>1. CASE closing # Nothing
    BY <1>1, <2>1 DEF Starting
  <2>2. CASE closing = Nothing
    BY <1>1, <2>2 DEF Starting
  <2> QED
    BY <2>1, <2>2
<1> QED
  BY <1>1, <1>2

LEMMA ReadyInv == ASSUME CacheInv, RunInv, Ready PROVE RunInv'
<1> DEFINE x == Starting
<1> DEFINE up == [child EXCEPT ![x] = "up"]
<1>0. /\ phase = "start" /\ closing = Nothing /\ error = "none"
      /\ x \in Workers /\ \A v \in Workers : child[v] = "loading" => v = x
      /\ \A t \in Tasks : task[t] = "none"
      /\ UNCHANGED <<cacheVars, task, stop, closeVars, error, cancelled, cutOff>>
  BY StartingIs DEF Ready, RunInv, ErrorShape, TasksShape, Before
<1>1. PICK i \in DOMAIN Adapters : Adapters[i] = x /\ StartFrom(i + 1, up)
  BY DEF Ready
<1>2. i + 1 \in Nat \ {0}
  BY <1>1, StartupAssumption, LenProperties
<1>3. up \in [Workers -> {"none", "loading", "up", "dead"}] /\ \A w \in Workers : up[w] # "loading"
  BY <1>0 DEF RunInv, RunTypes
<1>4. \A w \in Workers : w # x => up[w] = child[w]
  BY <1>0 DEF RunInv, RunTypes
<1>5. stack' = <<x>> \o stack
  BY DEF Ready
<1> HIDE DEF x, up
<1>6. /\ child' \in [Workers -> {"none", "loading", "up", "dead"}]
      /\ phase' \in {"start", "open"}
      /\ \A w \in Workers : phase' = "open" => child'[w] = up[w]
      /\ phase' = "start" =>
           \E w \in Workers : /\ child'[w] = "loading"
                              /\ \A v \in Workers : v # w => child'[v] = up[v]
  BY <1>1, <1>2, <1>3, StartFromInv
<1>7. <<x>> \in Seq(Workers \cup Channels) /\ Len(<<x>>) = 1 /\ <<x>>[1] = x
  BY <1>0
<1>8. stack' \in Seq(Workers \cup Channels) /\ (\A r : Holds(stack, r) => Holds(stack', r)) /\ Holds(stack', x)
  BY <1>5, <1>7, PushedStays DEF Holds, RunInv, RunTypes
<1>9. RunTypes'
  BY <1>0, <1>6, <1>8 DEF RunInv, RunTypes, Before, closeVars
<1>10. ClosingShape' /\ ReturnedEmpty'
  BY <1>0, <1>6 DEF RunInv, ClosingShape, ReturnedEmpty, closeVars
<1>11. OneLoads'
  BY <1>0, <1>3, <1>6 DEF RunInv, OneLoads, closeVars
<1>12. AliveIsKept'
  <2> SUFFICES ASSUME 2 * Grace < Budget,
                      NEW w \in Workers \ cutOff, child'[w] \in {"loading", "up"}
               PROVE  Holds(stack', w) \/ (phase' = "start" /\ child'[w] = "loading")
    BY <1>0 DEF AliveIsKept, Alive, closeVars
  <2>1. CASE w = x
    BY <2>1, <1>8
  <2>2. CASE w # x
    <3>1. CASE child'[w] = up[w]
      BY <3>1, <2>2, <1>0, <1>4, <1>8, NamesApart DEF RunInv, AliveIsKept, Alive
    <3>2. CASE child'[w] # up[w]
      BY <3>2, <1>6
    <3> QED
      BY <3>1, <3>2
  <2> QED
    BY <2>1, <2>2
<1>13. PreflightDone'
  BY <1>0 DEF PreflightDone, cacheVars, RunInv
<1>14. TasksShape' /\ ErrorShape'
  BY <1>0, <1>6 DEF TasksShape, ErrorShape, Before, After, closeVars
<1>15. FilesFirst'
  BY <1>0 DEF RunInv, FilesFirst, Complete, cacheVars
<1> QED
  BY <1>9, <1>10, <1>11, <1>12, <1>13, <1>14, <1>15 DEF RunInv

LEMMA StartFailsInv == ASSUME RunInv, StartFails PROVE RunInv'
<1>0. /\ phase = "start" /\ closing = Nothing /\ closing' = Starting /\ spent' = 0
      /\ bounded' = FALSE /\ stage' = "join" /\ error' = "failed"
      /\ Starting \in Workers /\ \A v \in Workers : child[v] = "loading" => v = Starting
      /\ \A t \in Tasks : task[t] = "none"
      /\ UNCHANGED <<cacheVars, phase, child, stack, task, stop, cancelled, cutOff>>
  BY StartingIs DEF StartFails, BeginClose, RunInv, TasksShape, Before
<1>1. RunTypes'
  BY <1>0 DEF RunInv, RunTypes
<1>2. ClosingShape' /\ ReturnedEmpty'
  BY <1>0, GraceFacts, NamesApart DEF ClosingShape, ReturnedEmpty
<1>3. OneLoads' /\ AliveIsKept'
  BY <1>0, NamesApart DEF RunInv, OneLoads, AliveIsKept, Alive
<1>4. PreflightDone' /\ FilesFirst'
  BY <1>0 DEF RunInv, PreflightDone, FilesFirst, Complete, cacheVars
<1>5. TasksShape' /\ ErrorShape'
  BY <1>0, NamesApart DEF TasksShape, ErrorShape, Before, After
<1> QED
  BY <1>1, <1>2, <1>3, <1>4, <1>5 DEF RunInv

LEMMA ReversedDirections == Reverse(Directions) \in Seq(Workers \cup Channels)
<1>1. Len(Directions) \in Nat /\ \A i \in 1..Len(Directions) : Directions[i] \in Channels
  BY StartupAssumption, LenProperties, ElementOfSeq
<1>2. \A i \in 1..Len(Directions) : (Len(Directions) - i) + 1 \in 1..Len(Directions)
  BY <1>1
<1> QED
  BY <1>1, <1>2, IsASeq DEF Reverse

LEMMA OpenDevicesInv == ASSUME RunInv, OpenDevices PROVE RunInv'
<1>0. /\ phase = "open" /\ closing = Nothing /\ error = "none"
      /\ \A t \in Tasks : task[t] = "none"
      /\ UNCHANGED <<cacheVars, child, stop, closeVars, cancelled, cutOff>>
  BY DEF OpenDevices, RunInv, TasksShape, ErrorShape, ClosingShape, Before
<1>1. CASE DevicesOpen
  <2>1. stack' \in Seq(Workers \cup Channels) /\ \A r : Holds(stack, r) => Holds(stack', r)
    BY <1>1, ReversedDirections, PushedStays DEF DevicesOpen, RunInv, RunTypes
  <2>2. task' = [t \in Tasks |-> "running"] /\ phase' = "run" /\ error' = error
    BY <1>1 DEF DevicesOpen
  <2>3. RunTypes'
    BY <1>0, <2>1, <2>2 DEF RunInv, RunTypes, closeVars
  <2>4. ClosingShape' /\ ReturnedEmpty' /\ OneLoads'
    BY <1>0, <2>2 DEF RunInv, ClosingShape, ReturnedEmpty, OneLoads, closeVars
  <2>5. AliveIsKept'
    BY <1>0, <2>1, <2>2, NamesApart DEF RunInv, AliveIsKept, Alive, closeVars
  <2>6. PreflightDone' /\ FilesFirst'
    BY <1>0, <2>2 DEF RunInv, PreflightDone, FilesFirst, Complete, cacheVars
  <2>7. TasksShape' /\ ErrorShape'
    BY <1>0, <2>2 DEF TasksShape, ErrorShape, Before, After, closeVars
  <2> QED
    BY <2>3, <2>4, <2>5, <2>6, <2>7 DEF RunInv
<1>2. CASE DevicesFail
  <2>2. phase' = "unwind" /\ error' = "failed" /\ UNCHANGED <<stack, task>>
    BY <1>2 DEF DevicesFail
  <2>3. RunTypes'
    BY <1>0, <2>2 DEF RunInv, RunTypes, closeVars, After
  <2>4. ClosingShape' /\ ReturnedEmpty' /\ OneLoads'
    BY <1>0, <2>2 DEF RunInv, ClosingShape, ReturnedEmpty, OneLoads, closeVars
  <2>5. AliveIsKept'
    BY <1>0, <2>2, NamesApart DEF RunInv, AliveIsKept, Alive, closeVars
  <2>6. PreflightDone' /\ FilesFirst'
    BY <1>0, <2>2 DEF RunInv, PreflightDone, FilesFirst, Complete, cacheVars
  <2>7. TasksShape' /\ ErrorShape'
    BY <1>0, <2>2 DEF TasksShape, ErrorShape, Before, After, closeVars
  <2> QED
    BY <2>3, <2>4, <2>5, <2>6, <2>7 DEF RunInv
<1> QED
  BY <1>1, <1>2 DEF OpenDevices

(* A step of the sessions: neither the children nor what closes is touched. *)
LEMMA SessionStep ==
  ASSUME RunInv, phase = "run", phase' \in {"run", "unwind"}, TasksShape', ErrorShape',
         task' \in [Tasks -> {"none", "running", "done", "failed", "cancelled"}],
         stop' \subseteq {"sigint", "cancel"},
         error' \in {"none", "failed", "cancelled"}, cancelled' \in BOOLEAN,
         UNCHANGED <<cacheVars, child, stack, closeVars, cutOff>>
  PROVE  RunInv'
<1>1. RunTypes'
  BY DEF RunInv, RunTypes, After, closeVars
<1>2. ClosingShape' /\ ReturnedEmpty' /\ OneLoads'
  BY DEF RunInv, ClosingShape, ReturnedEmpty, OneLoads, closeVars
<1>3. AliveIsKept'
  BY DEF RunInv, AliveIsKept, Alive, closeVars
<1>4. PreflightDone' /\ FilesFirst'
  BY DEF RunInv, PreflightDone, FilesFirst, Complete, cacheVars
<1> QED
  BY <1>1, <1>2, <1>3, <1>4 DEF RunInv

LEMMA TaskEndsInv == ASSUME RunInv, NEW t \in Tasks, TaskEnds(t) PROVE RunInv'
<1>1. PICK how \in {"done", "failed", "cancelled"} :
        /\ task' = [task EXCEPT ![t] = how]
        /\ how = "cancelled" => Asked(t[1])
  BY DEF TaskEnds
<1>2. how = "cancelled" => stop # {} \/ AnyFailed
  BY <1>1 DEF Asked, AnyFailed, Tasks
<1>3. /\ phase = "run" /\ phase' = phase /\ task[t] = "running" /\ error' = error
      /\ UNCHANGED <<cacheVars, child, stack, stop, closeVars, cancelled, cutOff>>
  BY DEF TaskEnds
<1>4. /\ task' \in [Tasks -> {"none", "running", "done", "failed", "cancelled"}]
      /\ \A u \in Tasks : task'[u] = IF u = t THEN how ELSE task[u]
  BY <1>1 DEF RunInv, RunTypes
<1>5. AnyFailed => AnyFailed'
  BY <1>3, <1>4, FailedIsATask
<1>6. TasksShape'
  BY <1>2, <1>3, <1>4, <1>5 DEF RunInv, TasksShape, Before, After
<1>7. ErrorShape'
  BY <1>3 DEF RunInv, ErrorShape, After
<1> QED
  BY <1>3, <1>4, <1>6, <1>7, SessionStep DEF RunInv, RunTypes

LEMMA SigintInv == ASSUME RunInv, Sigint PROVE RunInv'
<1>1. /\ phase = "run" /\ stop' = stop \cup {"sigint"} /\ stop' # {}
      /\ UNCHANGED <<cacheVars, phase, child, stack, task, closeVars, error, cancelled, cutOff>>
  BY DEF Sigint
<1>2. TasksShape' /\ ErrorShape'
  BY <1>1 DEF RunInv, TasksShape, ErrorShape, Before, After
<1> QED
  BY <1>1, <1>2, SessionStep DEF RunInv, RunTypes

LEMMA CancelRunInv ==
  ASSUME RunInv, CancelRun, cancelled' = TRUE, UNCHANGED cacheVars PROVE RunInv'
<1>1. /\ phase = "run" /\ stop' = stop \cup {"cancel"} /\ stop' # {}
      /\ UNCHANGED <<cacheVars, phase, child, stack, task, closeVars, error, cutOff>>
  BY DEF CancelRun
<1>2. TasksShape' /\ ErrorShape'
  BY <1>1 DEF RunInv, TasksShape, ErrorShape, Before, After
<1> QED
  BY <1>1, <1>2, SessionStep DEF RunInv, RunTypes

LEMMA SessionEndsInv == ASSUME RunInv, SessionEnds PROVE RunInv'
<1>1. /\ phase = "run" /\ SessionOver /\ phase' = "unwind" /\ error' = Outcome
      /\ UNCHANGED <<cacheVars, child, stack, task, stop, closeVars, cancelled, cutOff>>
  BY DEF SessionEnds
<1>2. /\ \A t \in Tasks : task[t] \in {"done", "failed", "cancelled"}
      /\ \A t \in Tasks : task[t] = "cancelled" => stop # {} \/ AnyFailed
      /\ AnyFailed' <=> AnyFailed
  BY <1>1, FailedIsATask DEF RunInv, RunTypes, TasksShape
<1>3. TasksShape'
  BY <1>1, <1>2 DEF TasksShape, Before, After
<1>4. ErrorShape'
  <2>1. CASE AnyFailed
    BY <2>1, <1>1, <1>2 DEF ErrorShape, Outcome, After
  <2>2. CASE ~AnyFailed /\ stop = {"cancel"}
    BY <2>2, <1>1 DEF ErrorShape, Outcome, After
  <2>3. CASE ~AnyFailed /\ stop # {"cancel"} /\ "sigint" \in stop
    BY <2>3, <1>1, <1>2 DEF ErrorShape, Outcome, After
  <2>4. CASE ~AnyFailed /\ stop # {"cancel"} /\ "sigint" \notin stop
    <3>1. stop = {}
      BY <2>4 DEF RunInv, RunTypes
    <3>2. \A t \in Tasks : task[t] = "done"
      BY <2>4, <3>1, <1>2, FailedIsATask
    <3> QED
      BY <2>4, <3>2, <1>1 DEF ErrorShape, Outcome, After
  <2> QED
    BY <2>1, <2>2, <2>3, <2>4
<1> QED
  BY <1>1, <1>3, <1>4, SessionStep DEF RunInv, RunTypes, Outcome

(* A step of the exit stack, or of the close of a failed start: the        *)
(* sessions are not touched.                                               *)
LEMMA ClosingStep ==
  ASSUME RunInv, phase \in {"start", "unwind"}, phase' \in {phase, "unwind"},
         ClosingShape', AliveIsKept', phase' = "start" => OneLoads' /\ error' = error,
         child' \in [Workers -> {"none", "loading", "up", "dead"}],
         \A w \in Workers : child[w] = "none" => child'[w] = "none",
         stack' \in Seq(Workers \cup Channels),
         closing' \in Workers \cup Channels \cup {Nothing},
         stage' \in {"none", "join", "terminate", "sink"},
         spent' \in Nat, bounded' \in BOOLEAN, cutOff' \subseteq Workers,
         phase' = "start" => closing' = closing,
         phase = "start" /\ phase' = "unwind" => error' \in {"failed", "cancelled"},
         phase = "unwind" => error' \in {error, "cancelled"},
         cancelled' \in BOOLEAN,
         UNCHANGED <<cacheVars, task, stop>>
  PROVE  RunInv'
<1>1. RunTypes'
  BY DEF RunInv, RunTypes, Before, After
<1>2. OneLoads' /\ ReturnedEmpty'
  BY DEF OneLoads, ReturnedEmpty
<1>3. PreflightDone' /\ FilesFirst'
  BY DEF RunInv, PreflightDone, FilesFirst, Complete, cacheVars
<1>4. AnyFailed' <=> AnyFailed
  BY FailedIsATask
<1>5. TasksShape'
  BY <1>4 DEF RunInv, TasksShape, Before, After
<1>6. ErrorShape'
  BY <1>4 DEF RunInv, RunTypes, TasksShape, ErrorShape, Before, After
<1> QED
  BY <1>1, <1>2, <1>3, <1>5, <1>6 DEF RunInv

LEMMA CloseNextInv == ASSUME RunInv, CloseNext PROVE RunInv'
<1>1. /\ phase = "unwind" /\ closing = Nothing /\ stack # <<>>
      /\ closing' = Head(stack) /\ spent' = 0 /\ bounded' = TRUE
      /\ stage' = IF Head(stack) \in Workers THEN "join" ELSE "sink"
      /\ stack' = Tail(stack)
      /\ UNCHANGED <<cacheVars, phase, child, task, stop, error, cancelled, cutOff>>
  BY DEF CloseNext, BeginClose
<1>2. stack \in Seq(Workers \cup Channels)
  BY DEF RunInv, RunTypes
<1>3. /\ Head(stack) \in Workers \cup Channels
      /\ Tail(stack) \in Seq(Workers \cup Channels)
      /\ \A r : Holds(stack, r) => r = Head(stack) \/ Holds(Tail(stack), r)
  <2>1. /\ Head(stack) \in Workers \cup Channels
        /\ Tail(stack) \in Seq(Workers \cup Channels)
        /\ Len(Tail(stack)) = Len(stack) - 1
        /\ \A i \in 1..Len(Tail(stack)) : Tail(stack)[i] = stack[i + 1]
        /\ Head(stack) = stack[1] /\ Len(stack) \in Nat
    BY <1>1, <1>2, HeadTailProperties, LenProperties
  <2>2. ASSUME NEW k \in 1..Len(stack), k # 1
        PROVE  k - 1 \in 1..Len(Tail(stack)) /\ Tail(stack)[k - 1] = stack[k]
    BY <2>1, <2>2
  <2>3. ASSUME NEW r, Holds(stack, r), r # Head(stack) PROVE Holds(Tail(stack), r)
    BY <2>1, <2>2, <2>3 DEF Holds
  <2> QED
    BY <2>1, <2>3
<1>4. ClosingShape'
  BY <1>1, <1>3, GraceFacts, NamesApart DEF ClosingShape
<1>5. AliveIsKept'
  BY <1>1, <1>3, NamesApart DEF RunInv, AliveIsKept, Alive
<1> QED
  BY <1>1, <1>3, <1>4, <1>5, ClosingStep DEF RunInv, RunTypes

LEMMA ChildExitsInv == ASSUME RunInv, NEW w \in Workers, ChildExits(w) PROVE RunInv'
<1>1. /\ closing = w /\ Alive(w) /\ child' = [child EXCEPT ![w] = "dead"]
      /\ UNCHANGED <<cacheVars, phase, stack, task, stop, closeVars, error, cancelled, cutOff>>
  BY DEF ChildExits
<1>2. phase \in {"start", "unwind"}
  BY <1>1, NamesApart DEF RunInv, ClosingShape
<1>3. /\ child' \in [Workers -> {"none", "loading", "up", "dead"}]
      /\ \A v \in Workers : child'[v] = IF v = w THEN "dead" ELSE child[v]
  BY <1>1 DEF RunInv, RunTypes
<1>4. ClosingShape' /\ AliveIsKept'
  BY <1>1, <1>3 DEF RunInv, ClosingShape, AliveIsKept, Alive, closeVars
<1>5. phase' = "start" => OneLoads' /\ error' = error
  BY <1>1, <1>3, NamesApart DEF RunInv, OneLoads, closeVars
<1> QED
  BY <1>1, <1>2, <1>3, <1>4, <1>5, ClosingStep DEF RunInv, RunTypes, closeVars, Alive

LEMMA JoinEndsInv == ASSUME RunInv, JoinEnds PROVE RunInv'
<1>0. /\ closing \in Workers /\ phase \in {"start", "unwind"}
      /\ UNCHANGED <<cacheVars, stack, task, stop, error, cancelled, cutOff>>
  BY NamesApart DEF JoinEnds, RunInv, ClosingShape
<1>1. CASE /\ Alive(closing) /\ spent = StageEnd[stage] /\ stage = "join"
           /\ stage' = "terminate" /\ UNCHANGED <<closing, spent, bounded, phase, child>>
  <2>1. ClosingShape'
    BY <1>0, <1>1, GraceFacts DEF RunInv, RunTypes, ClosingShape
  <2>2. AliveIsKept' /\ OneLoads'
    BY <1>0, <1>1 DEF RunInv, AliveIsKept, Alive, OneLoads
  <2> QED
    BY <1>0, <1>1, <2>1, <2>2, ClosingStep DEF RunInv, RunTypes
<1>2. CASE /\ Closed
           /\ \/ ~Alive(closing) /\ child' = child
              \/ Alive(closing) /\ child' = [child EXCEPT ![closing] = "dead"]
  <2>1. /\ closing' = Nothing /\ stage' = "none" /\ spent' = 0 /\ bounded' = TRUE
        /\ phase' = "unwind"
    BY <1>0, <1>2 DEF Closed
  <2>2. /\ child' \in [Workers -> {"none", "loading", "up", "dead"}]
        /\ \A w \in Workers : child'[w] = "none" <=> child[w] = "none"
        /\ \A w \in Workers : w # closing => child'[w] = child[w]
        /\ child'[closing] \notin {"loading", "up"}
    BY <1>0, <1>2 DEF RunInv, RunTypes, Alive
  <2>3. ClosingShape'
    BY <2>1, NamesApart DEF ClosingShape
  <2>4. AliveIsKept'
    BY <1>0, <2>1, <2>2, NamesApart DEF RunInv, AliveIsKept, Alive
  <2>5. phase = "start" => error = "failed"
    BY <1>0, NamesApart DEF RunInv, ErrorShape
  <2> QED
    BY <1>0, <2>1, <2>2, <2>3, <2>4, <2>5, ClosingStep DEF RunInv, RunTypes
<1> QED
  BY <1>1, <1>2 DEF JoinEnds

LEMMA GivesUpInv == ASSUME RunInv, GivesUp PROVE RunInv'
<1>0. /\ closing # Nothing /\ bounded /\ phase = "unwind" /\ Closed
      /\ UNCHANGED <<cacheVars, child, stack, task, stop, error, cancelled, cutOff>>
  BY DEF GivesUp, RunInv, ClosingShape
<1>1. 2 * Grace < Budget => closing \notin Workers
  <2> SUFFICES ASSUME 2 * Grace < Budget, closing \in Workers PROVE FALSE
    OBVIOUS
  <2>1. spent = Budget /\ spent <= StageEnd[stage] /\ stage \in {"join", "terminate"}
    BY DEF GivesUp, RunInv, ClosingShape
  <2> QED
    BY <2>1, GraceFacts
<1>2. /\ closing' = Nothing /\ stage' = "none" /\ spent' = 0 /\ bounded' = TRUE
      /\ phase' = "unwind"
  BY <1>0 DEF Closed
<1>3. ClosingShape'
  BY <1>2, NamesApart DEF ClosingShape
<1>4. AliveIsKept'
  BY <1>0, <1>1, <1>2, NamesApart DEF RunInv, AliveIsKept, Alive
<1> QED
  BY <1>0, <1>2, <1>3, <1>4, ClosingStep DEF RunInv, RunTypes

LEMMA TickInv == ASSUME RunInv, Tick PROVE RunInv'
<1>0. /\ closing \in Workers /\ phase \in {"start", "unwind"}
      /\ spent < StageEnd[stage] /\ spent' = spent + 1 /\ stage \in {"join", "terminate"}
      /\ UNCHANGED <<cacheVars, phase, child, stack, task, stop, closing, stage, bounded,
                     error, cancelled, cutOff>>
  BY NamesApart DEF Tick, RunInv, ClosingShape
<1>1. spent' \in Nat
  BY <1>0 DEF RunInv, RunTypes
<1>2. ClosingShape'
  BY <1>0, GraceFacts DEF RunInv, RunTypes, ClosingShape
<1>3. AliveIsKept' /\ OneLoads'
  BY <1>0 DEF RunInv, AliveIsKept, Alive, OneLoads
<1> QED
  BY <1>0, <1>1, <1>2, <1>3, ClosingStep DEF RunInv, RunTypes

LEMMA CancelStartInv ==
  ASSUME RunInv, CancelStart, cancelled' = TRUE, UNCHANGED cacheVars PROVE RunInv'
<1>0. /\ phase = "start" /\ cutOff' = cutOff \cup {Starting} /\ error' = "cancelled"
      /\ Starting \in Workers /\ (closing # Nothing => closing = Starting)
      /\ \A v \in Workers : child[v] = "loading" => v = Starting
      /\ UNCHANGED <<cacheVars, child, stack, task, stop>>
  BY StartingIs DEF CancelStart
<1>1. /\ closing' = Nothing /\ stage' = "none" /\ spent' = 0 /\ bounded' = TRUE
      /\ phase' = "unwind"
  BY <1>0 DEF CancelStart, Closed
<1>2. ClosingShape'
  BY <1>1, NamesApart DEF ClosingShape
<1>3. AliveIsKept'
  BY <1>0, <1>1, NamesApart DEF RunInv, AliveIsKept, Alive
<1> QED
  BY <1>0, <1>1, <1>2, <1>3, ClosingStep DEF RunInv, RunTypes

LEMMA CancelCloseInv ==
  ASSUME RunInv, CancelClose, cancelled' = TRUE, UNCHANGED cacheVars PROVE RunInv'
<1>0. /\ phase = "unwind" /\ cutOff' = cutOff \cup ({closing} \cap Workers)
      /\ error' = "cancelled"
      /\ UNCHANGED <<cacheVars, child, stack, task, stop>>
  BY DEF CancelClose
<1>1. /\ closing' = Nothing /\ stage' = "none" /\ spent' = 0 /\ bounded' = TRUE
      /\ phase' = "unwind"
  BY <1>0 DEF CancelClose, Closed
<1>2. ClosingShape'
  BY <1>1, NamesApart DEF ClosingShape
<1>3. AliveIsKept'
  BY <1>0, <1>1, NamesApart DEF RunInv, AliveIsKept, Alive
<1> QED
  BY <1>0, <1>1, <1>2, <1>3, ClosingStep DEF RunInv, RunTypes

LEMMA ReturnInv == ASSUME RunInv, Return PROVE RunInv'
<1>0. /\ phase = "unwind" /\ closing = Nothing /\ stack = <<>> /\ phase' = "returned"
      /\ UNCHANGED <<cacheVars, child, stack, task, stop, closeVars, error, cancelled, cutOff>>
  BY DEF Return
<1>1. RunTypes'
  BY <1>0 DEF RunInv, RunTypes, After, closeVars
<1>2. ClosingShape' /\ ReturnedEmpty' /\ OneLoads' /\ AliveIsKept'
  BY <1>0 DEF RunInv, ClosingShape, ReturnedEmpty, OneLoads, AliveIsKept, Alive, closeVars
<1>3. PreflightDone' /\ FilesFirst'
  BY <1>0 DEF RunInv, PreflightDone, FilesFirst, Complete, cacheVars
<1>4. TasksShape' /\ ErrorShape'
  BY <1>0, FailedIsATask DEF RunInv, TasksShape, ErrorShape, Before, After
<1> QED
  BY <1>1, <1>2, <1>3, <1>4 DEF RunInv

LEMMA CancelPrefetchInv ==
  ASSUME RunInv, CancelPrefetch, cancelled' = TRUE, UNCHANGED cacheVars PROVE RunInv'
<1>0. /\ phase = "prefetch" /\ phase' = "abort" /\ error' = "cancelled"
      /\ UNCHANGED <<cacheVars, child, stack, task, stop, closeVars, cutOff>>
  BY DEF CancelPrefetch
<1>1. RunTypes'
  BY <1>0 DEF RunInv, RunTypes, Before, closeVars
<1>2. ClosingShape' /\ ReturnedEmpty' /\ OneLoads' /\ AliveIsKept'
  BY <1>0 DEF RunInv, ClosingShape, ReturnedEmpty, OneLoads, AliveIsKept, Alive, closeVars
<1>3. PreflightDone' /\ FilesFirst'
  BY <1>0 DEF RunInv, PreflightDone, FilesFirst, Complete, cacheVars
<1>4. TasksShape' /\ ErrorShape'
  BY <1>0, FailedIsATask DEF RunInv, TasksShape, ErrorShape, Before, After
<1> QED
  BY <1>1, <1>2, <1>3, <1>4 DEF RunInv

(* The steps of the cache keep what is complete, and end no resolution that *)
(* has ended.                                                               *)
LEMMA CacheKeeps ==
  ASSUME CacheInv, NEW p \in Procs, CacheStep(p) \/ Die(p)
  PROVE  /\ \A a \in Names : Complete(a) => Complete(a)'
         /\ at[p] \in Resolving
         /\ \A q \in Procs \ {p} : at'[q] = at[q]
<1>1. at[p] \in Resolving
  BY DEF CacheStep, Die, Resolve, Check, Lock, Recheck, Fetch, FetchEnds, FetchBreaks,
         Rename, Resolving, Downloading
<1>2. \A q \in Procs \ {p} : at'[q] = at[q]
  BY DEF CacheStep, Die, Resolve, Check, Lock, Recheck, Fetch, FetchEnds, FetchBreaks,
         Rename, MoveOn, TryAgain, GiveUp, CacheInv, CacheTypeOK
<1>3. \A a \in Names : Complete(a) => Complete(a)'
  <2>1. CASE Rename(p)
    BY <2>1, WantedType
       DEF Rename, TryAgain, GiveUp, CacheInv, CacheTypeOK, Complete
  <2>2. CASE ~Rename(p)
    <3>1. file' = file
      BY <2>2 DEF CacheStep, Die, Resolve, Check, Lock, Recheck, Fetch, FetchEnds,
                  FetchBreaks, TryAgain, GiveUp
    <3> QED
      BY <3>1 DEF Complete
  <2> QED
    BY <2>1, <2>2
<1> QED
  BY <1>1, <1>2, <1>3

LEMMA CacheRunInv == ASSUME CacheInv, RunInv, Cache PROVE RunInv'
<1>0. UNCHANGED <<phase, child, stack, task, stop, closeVars, error, cancelled, cutOff>>
  BY DEF Cache
<1>p. PICK p \in Procs : CacheStep(p) \/ Die(p)
  BY DEF Cache
<1>1. RunTypes'
  BY <1>0 DEF RunInv, RunTypes, closeVars
<1>2. ClosingShape' /\ ReturnedEmpty' /\ OneLoads' /\ AliveIsKept'
  BY <1>0 DEF RunInv, ClosingShape, ReturnedEmpty, OneLoads, AliveIsKept, Alive, closeVars
<1>3. PreflightDone' /\ FilesFirst'
  BY <1>0, <1>p, CacheKeeps, StartupAssumption DEF RunInv, PreflightDone, FilesFirst
<1>4. TasksShape' /\ ErrorShape'
  BY <1>0, FailedIsATask DEF RunInv, TasksShape, ErrorShape, closeVars
<1> QED
  BY <1>1, <1>2, <1>3, <1>4 DEF RunInv

LEMMA PreflightReapedInv == ASSUME CacheInv, RunInv, PreflightReaped PROVE RunInv'
<1>0. /\ phase = "abort" /\ phase' = "unwind"
      /\ IF at[Preflight] \in Resolving THEN Die(Preflight) ELSE UNCHANGED cacheVars
      /\ UNCHANGED <<child, stack, task, stop, closeVars, error, cancelled, cutOff>>
  BY DEF PreflightReaped
<1>1. RunTypes'
  BY <1>0 DEF RunInv, RunTypes, After, closeVars
<1>2. ClosingShape' /\ ReturnedEmpty' /\ OneLoads' /\ AliveIsKept'
  BY <1>0 DEF RunInv, ClosingShape, ReturnedEmpty, OneLoads, AliveIsKept, Alive, closeVars
<1>3. at'[Preflight] \notin Resolving /\ file' = file
  BY <1>0, StartupAssumption
     DEF Die, CacheInv, CacheTypeOK, Resolving, Downloading, cacheVars
<1>4. PreflightDone' /\ FilesFirst'
  BY <1>0, <1>3 DEF RunInv, PreflightDone, FilesFirst, Complete
<1>5. TasksShape' /\ ErrorShape'
  BY <1>0, FailedIsATask DEF RunInv, TasksShape, ErrorShape, Before, After
<1> QED
  BY <1>1, <1>2, <1>4, <1>5 DEF RunInv

LEMMA RunStep ==
  ASSUME CacheInv, RunInv, [Next]_vars PROVE RunInv'
<1>1. CASE UNCHANGED vars
  <2>1. RunTypes'
    BY <1>1 DEF RunInv, RunTypes, vars, closeVars
  <2>2. ClosingShape' /\ ReturnedEmpty' /\ OneLoads' /\ AliveIsKept'
    BY <1>1 DEF RunInv, ClosingShape, ReturnedEmpty, OneLoads, AliveIsKept, Alive, vars, closeVars
  <2>3. PreflightDone' /\ FilesFirst'
    BY <1>1 DEF RunInv, PreflightDone, FilesFirst, Complete, vars, cacheVars
  <2>4. TasksShape' /\ ErrorShape'
    BY <1>1, FailedIsATask DEF RunInv, TasksShape, ErrorShape, vars, closeVars
  <2> QED
    BY <2>1, <2>2, <2>3, <2>4 DEF RunInv
<1>2. CASE Cancel
  BY <1>2, CancelPrefetchInv, CancelStartInv, CancelRunInv, CancelCloseInv DEF Cancel
<1>3. CASE Next /\ ~Cancel
  BY <1>3, PrefetchedInv, ReadyInv, StartFailsInv, OpenDevicesInv, TaskEndsInv, SigintInv,
     SessionEndsInv, CloseNextInv, ChildExitsInv, JoinEndsInv, GivesUpInv, TickInv,
     ReturnInv, PreflightReapedInv, CacheRunInv DEF Next
<1> QED
  BY <1>1, <1>2, <1>3

LEMMA CacheStepOrStutter == ASSUME CacheInv, [Next]_vars PROVE CacheInv'
<1>1. CASE Cache
  BY <1>1, CacheStepInv DEF Cache
<1>2. CASE PreflightReaped
  BY <1>2, DieInv, CacheStutters, StartupAssumption DEF PreflightReaped, CacheStep
<1>3. CASE [Next]_vars /\ ~Cache /\ ~PreflightReaped
  <2>1. UNCHANGED cacheVars
    BY <1>3 DEF Next, vars, Prefetched, Ready, StartFails, OpenDevices, TaskEnds, Sigint,
       SessionEnds, CloseNext, ChildExits, JoinEnds, GivesUp, Tick, Return, Cancel
  <2> QED
    BY <2>1, CacheStutters
<1> QED
  BY <1>1, <1>2, <1>3

---------------------------------------------------------------------------

(* The cache's invariant: locks are exclusive, the order of resolution is  *)
(* kept, and only verified files get an artifact's name (models.py         *)
(* _download_verified).                                                    *)
THEOREM SpecCacheInv == Spec => []CacheInv
<1>1. Init => CacheInv
  BY CacheInitInv DEF Init
<1>2. CacheInv /\ [Next]_vars => CacheInv'
  BY CacheStepOrStutter
<1> QED
  BY <1>1, <1>2, PTL DEF Spec

(* The run's invariant: every living child has its close ahead, tasks and  *)
(* errors fit the phase (runtime.py run_session, session.py).              *)
THEOREM StartupInv == Spec => []RunInv
<1>1. Init => RunInv
  BY RunInitInv
<1>2. CacheInv /\ RunInv /\ [Next]_vars => RunInv'
  BY RunStep
<1> QED
  BY <1>1, <1>2, SpecCacheInv, PTL DEF Spec

(* run_session leaves nothing behind, whatever fails, hangs or is          *)
(* cancelled (but for a cancellation inside one start or close, which      *)
(* ReapedOnReturn excepts), as long as the two waits of a worker's close   *)
(* fit in the shutdown budget, as they do with the defaults (runtime.py    *)
(* _start_adapter, _run_cancellable).                                      *)
THEOREM StartupReturnsClean == ASSUME 2 * Grace < Budget PROVE Spec => []ReturnsClean
<1>1. CacheInv /\ RunInv => ReturnsClean
  <2> SUFFICES ASSUME CacheInv, RunInv PROVE ReturnsClean
    OBVIOUS
  <2>1. TypeOK
    <3>1. spent \in 0..Budget
      BY GraceFacts DEF RunInv, RunTypes, ClosingShape
    <3>2. ASSUME phase = "start"
          PROVE  Cardinality({w \in Workers : child[w] = "loading"}) <= 1
      <4>1. Starting \in Workers /\ {w \in Workers : child[w] = "loading"} \subseteq {Starting}
        BY <3>2, StartingIs
      <4>2. IsFiniteSet({Starting}) /\ Cardinality({Starting}) = 1
        BY FS_Singleton
      <4> QED
        BY <4>1, <4>2, FS_Subset
    <3> QED
      BY <3>1, <3>2 DEF TypeOK, CacheInv, RunInv, RunTypes, Before, After
  <2>2. ReapedOnReturn
    BY NamesApart DEF ReapedOnReturn, RunInv, AliveIsKept, ReturnedEmpty, Holds, PreflightDone
  <2>3. NothingRunsBehindCleanup /\ OutcomeIsTrue
    BY DEF NothingRunsBehindCleanup, OutcomeIsTrue, RunInv, TasksShape, ErrorShape, After
  <2> QED
    BY <2>1, <2>2, <2>3 DEF ReturnsClean
<1> QED
  BY <1>1, SpecCacheInv, StartupInv, PTL

(* Any number of processes may resolve the same artifacts, and be killed   *)
(* at any point: no download loses its partial file, and no child starts   *)
(* before every artifact is there and verified (models.py                  *)
(* _download_verified, _clean_stale_parts).                                *)
THEOREM StartupCacheIsSound == Spec => []CacheIsSound
<1>1. CacheInv /\ RunInv => CacheIsSound
  <2> SUFFICES ASSUME CacheInv, RunInv PROVE CacheIsSound
    OBVIOUS
  <2>1. PartsAreSpared
    BY DEF PartsAreSpared, CacheInv, PartsAreVerified, Downloading
  <2>2. LoadsVerifiedModels
    BY DEF LoadsVerifiedModels, CacheInv, CacheTypeOK, OnlyVerified, RunInv, FilesFirst, Complete
  <2> QED
    BY <2>1, <2>2 DEF CacheIsSound
<1> QED
  BY <1>1, SpecCacheInv, StartupInv, PTL
=============================================================================
