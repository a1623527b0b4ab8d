\* Two turns of speech in two blocks, so that one can be in progress while
\* the other begins, with one audio message each and queues of one place.
SPECIFICATION FairSpec
CONSTANTS
  MaxTurns = 2
  MaxAudio = 1
  MaxBlocks = 2
  QueueMax = 1
  MaxInFlight = 1
  MaxInterrupts = 1
  Backends <- BothBackends
INVARIANT TurnsAreAnswered
PROPERTIES InterruptsAreClean ImplementsResponseEvents StreamEndsForCause
CHECK_DEADLOCK FALSE
