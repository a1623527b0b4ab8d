\* The smallest run whose start() can be cancelled.
SPECIFICATION Spec
CONSTANTS
  Procs = {"preflight"}
  Artifacts <- VoiceFiles
  SweptWith <- SweptFiles
  Retries = 2
  MayBeOffline = {}
  Preflight = "preflight"
  Adapters <- TwoAdapters
  Directions <- BothWays
  Grace = 2
  Budget = 5
INVARIANT NoChildIsLeft
CHECK_DEADLOCK FALSE
