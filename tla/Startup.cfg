\* A dual session with its preflight beside another download; the grace and
\* the budget are the defaults, in seconds.
SPECIFICATION FairSpec
CONSTANTS
  Procs = {"preflight", "download"}
  Artifacts <- VoiceFiles
  SweptWith <- SweptFiles
  Retries = 2
  MayBeOffline = {"preflight"}
  Preflight = "preflight"
  Adapters <- TwoAdapters
  Directions <- BothWays
  Grace = 2
  Budget = 5
INVARIANTS CacheIsSound ReturnsClean
PROPERTY RunEnds
CHECK_DEADLOCK FALSE
