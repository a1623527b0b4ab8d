\* Three responses of two chunks against a queue and a sink of one place each:
\* a chunk of a later one waits in schedule() while an earlier still sounds.
SPECIFICATION FairSpec
CONSTANTS
  Capacity = 1
  MaxResponses = 3
  MaxAudio = 2
  MaxOnsets = 2
  QueueSize = 1
  Faults = {"fail", "crash"}
  RingSink = FALSE
INVARIANTS CutIsClean OthersUnharmed
PROPERTIES IgnoredOnsetsAreIdle SessionEnds
CHECK_DEADLOCK FALSE
