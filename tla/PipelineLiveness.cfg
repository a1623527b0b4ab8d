\* Two onsets, so that one can land inside the handling of the other and both
\* can race the end of the stream; two turns, so that the sink changes from one
\* generation to the next while calls are blocked.  A hang violates Termination,
\* so no deadlock check.
SPECIFICATION FairSpec
CONSTANTS
  NumTurns = 2
  MaxTokens = 1
  MaxChunks = 1
  MaxOnsets = 2
  QueueMax = 1
  Capacity = 1
  HasTurnIds = TRUE
  Faults <- NoFaults
PROPERTIES Termination SynthesizedIsHeard
CHECK_DEADLOCK FALSE
